---- MODULE Spec2Model ----
(***************************************************************************)
(* CanvasRenderer (src/lib/renderer.ts): the frame orchestrator render()   *)
(* with the collaborators it consumes (IRenderable, IScrollbackProvider,   *)
(* SelectionManager) and the renderer's public setters.                    *)
(*                                                                         *)
(* viewportY may be fractional during smooth scrolling.  It is carried in  *)
(* half-line units: vy2 = 2 * viewportY, so Math.floor(viewportY) is       *)
(* vy2 \div 2 and 'y < viewportY' is '2 * y < vy2'.  devicePixelRatio is   *)
(* carried the same way: dpr2 = 2 * devicePixelRatio.                      *)
(*                                                                         *)
(* A behaviour is a fresh renderer followed by at most MaxChanges calls    *)
(* other than render() (emulator writes, user input, setters), with        *)
(* render() called any number of times in between.                         *)
(*                                                                         *)
(* Spec starts from the default options, BlinkSpec from a renderer         *)
(* constructed with cursorBlink, CanvasSpec follows what the canvas shows  *)
(* (also at devicePixelRatio 1.5), and LineSpec paints one line with       *)
(* renderLine after a few edits of its cells.  BoxSpec paints two adjacent *)
(* box-drawing cells with drawBoxChar, and EncodeSpec follows the WASM     *)
(* allocations of KeyEncoder.encode (src/lib/buffer.test.ts).              *)
(***************************************************************************)
EXTENDS Integers, Sequences, FiniteSets, TLC

\* ------------------------------------------------------------------ bounds
\* Rows and columns of the terminal grid when it is not zero-sized.
Rows == 3
Cols == 2
\* Longest scrollback the provider reports.
MaxScrollback == 3
\* Largest OSC-8 hyperlink id carried by a cell (0 = no link).
MaxLinkId == 2
\* Number of emulator / host / user events in one behaviour.
MaxChanges == 2

\* ------------------------------------------------------------------ values
\* T | null
Null == << >>
Some(v) == << v >>
IsSome(o) == o # << >>
Val(o) == o[1]

RowSet(rows) == 0 .. (rows - 1)

\* Math.floor(viewportY), viewportY = vy2 / 2
Floor(vy2) == vy2 \div 2

\* The hyperlink ids carried by the cells of a line (cell.hyperlink_id);
\* a line of a zero-column grid has no cells.
BufferLineLinks(i, cols) ==
  IF cols = 0 THEN {}
  ELSE IF i % 3 = 0 THEN {0}
  ELSE IF i % 3 = 1 THEN {0, 1}
  ELSE {IF MaxLinkId < 2 THEN MaxLinkId ELSE 2}

ScrollbackLineLinks(off, cols) ==
  IF cols = 0 THEN {}
  ELSE IF off % 2 = 0 THEN {0, IF MaxLinkId < 2 THEN MaxLinkId ELSE 2}
  ELSE {0}

LineLinks(line, cols) ==
  IF line.src = "buffer" THEN BufferLineLinks(line.idx, cols)
  ELSE ScrollbackLineLinks(line.idx, cols)

\* A plain cell: letter A, light grey on red, width 1, no flags, no link.
PlainCell ==
  [ codepoint |-> 65, fg_r |-> 229, fg_g |-> 229, fg_b |-> 229,
    bg_r |-> 205, bg_g |-> 49, bg_b |-> 49,
    flags |-> {}, width |-> 1, hyperlink_id |-> 0 ]

\* The cells of a line: the line's hyperlink ids from the first cell on, and
\* every other cell underlined.
LineCells(line, cols) ==
  LET links == LineLinks(line, cols)
      first == CHOOSE m \in links : \A n \in links : m <= n
      last == CHOOSE m \in links : \A n \in links : m >= n
  IN [ i \in 1 .. cols |->
         [PlainCell EXCEPT !.hyperlink_id = IF i = 1 THEN first ELSE last,
                           !.flags = IF (line.idx + i) % 2 = 0
                                     THEN {"UNDERLINE"} ELSE {}] ]

\* FontMetrics measureFont() can return ({width, height}; baseline is not
\* needed by the frame orchestrator).
InitialMetrics == [width |-> 4, height |-> 8]
MetricsSet == { InitialMetrics, [width |-> 5, height |-> 9] }

\* options.devicePixelRatio ?? window.devicePixelRatio, doubled: 1 and 1.5
DprSet == {2, 3}

DimsSet == { [cols |-> c, rows |-> r] : c \in {0, Cols}, r \in {0, Rows} }

\* getCursor() positions
CursorSet == { [x |-> x, y |-> y] : x \in 0 .. (Cols - 1), y \in 0 .. (Rows - 1) }

\* Selection coordinates (viewport-relative, inclusive)
SelectionSet ==
  { s \in [startCol : {0}, startRow : 0 .. (Rows - 1),
           endCol : {Cols - 1}, endRow : 0 .. (Rows - 1)] :
      s.startRow <= s.endRow /\ s.endRow <= s.startRow + 1 }

\* Regex link ranges
LinkRangeSet ==
  { r \in [startX : {0}, startY : 0 .. (Rows - 1),
           endX : {Cols - 1}, endY : 0 .. (Rows - 1)] :
      r.startY <= r.endY /\ r.endY <= r.startY + 1 }

VARIABLES
  buffer,      \* the emulator (IRenderable)
  scrollback,  \* the IScrollbackProvider handed to render(), if any
  selmgr,      \* the SelectionManager
  renderer,    \* the CanvasRenderer's fields, its canvas included
  host,        \* the frame loop's viewportY (in halves) and scrollbar opacity
  frame,       \* what the last render() call did (idle after any other call)
  changes,     \* emulator / host / user events so far
  paint,       \* a line handed to renderLine and what painting it drew
  wasm         \* the WASM heap as a KeyEncoder uses it

vars == << buffer, scrollback, selmgr, renderer, host, frame, changes, paint, wasm >>

\* No KeyEncoder has been constructed.
NoWasm == [live |-> {}, next |-> 1, encoder |-> 0, calls |-> 0,
           allocs |-> << >>, frees |-> << >>, outcome |-> "none"]

IdleFrame == [active |-> FALSE]

\* No line is being painted on its own.
NoPaint == [line |-> << >>, rank |-> 0, edits |-> 0, painted |-> FALSE, y |-> 0,
            draws |-> << >>, alphas |-> << >>]

\* ------------------------------------------------- IRenderable (emulator)
GetLine(b, i) ==
  IF i \in RowSet(b.dims.rows) /\ i \notin b.nullRows
  THEN Some([src |-> "buffer", idx |-> i])
  ELSE Null

IsRowDirty(b, y) == y \in b.dirty

NeedsFullRedraw(b) == b.fullRedraw

\* marked: the rows the emulator has marked dirty since the last clearDirty()
\* (history of the dirty bits, not read by the renderer).
ClearDirty(b) == [b EXCEPT !.dirty = {}, !.fullRedraw = FALSE, !.marked = {}]

\* ------------------------------------------------- IScrollbackProvider
GetScrollbackLine(sb, off) ==
  IF off \in 0 .. (sb.length - 1)
  THEN Some([src |-> "scrollback", idx |-> off])
  ELSE Null

ScrollbackLength(sb) == IF sb.present THEN sb.length ELSE 0

\* ------------------------------------------------- SelectionManager
HasSelection(sm) == IsSome(sm.coords)

ClearDirtySelectionRows(sm) == [sm EXCEPT !.dirtyRows = {}]

RangeOfSelection(coords) ==
  IF IsSome(coords) THEN Val(coords).startRow .. Val(coords).endRow ELSE {}

\* ------------------------------------------------- draw / call log
\* One entry per call render() makes on a collaborator or on the surface:
\* op the call, ph the part of render() making it, y the viewport row (or the
\* first argument), i the index requested (or the second argument), src the
\* origin of the line involved.
Op(op, ph, y, i, src) == [op |-> op, ph |-> ph, y |-> y, i |-> i, src |-> src]

\* renderLine(line, y, cols): clears the row rectangle, then the two passes.
RenderLineOps(ph, line, y) ==
  IF IsSome(line)
  THEN << Op("renderLine", ph, y, Val(line).idx, Val(line).src) >>
  ELSE << >>

\* ------------------------------------------------- cell painter
\* DEFAULT_THEME colours the painter uses, and the fixed hover accent
\* (#4A90E2), as the r, g, b the canvas receives.
RgbToCSS(r, g, b) == << r, g, b >>

Theme ==
  [ background          |-> RgbToCSS(30, 30, 30),
    cursor              |-> RgbToCSS(255, 255, 255),
    selectionBackground |-> RgbToCSS(212, 212, 212),
    selectionForeground |-> RgbToCSS(30, 30, 30) ]

HoverColor == RgbToCSS(74, 144, 226)

\* metrics.baseline = ceil(ascent) with ascent = 0.8 of the line height
Baseline(m) == (4 * m.height + 4) \div 5

\* cell.flags & CellFlags.F
HasFlag(cell, f) == f \in cell.flags

\* One entry per mutation of the surface by renderLine: op the kind of draw,
\* x and y the cell (x = 0 for the row rectangle), w the width in pixels,
\* style the fill or stroke colour, via the routine drawing a glyph, alpha2
\* twice the globalAlpha in force, at2 twice the pixel y of the draw.
Draw(op, x, y, w, style, via, alpha2, at2) ==
  [op |-> op, x |-> x, y |-> y, w |-> w, style |-> style, via |-> via,
   alpha2 |-> alpha2, at2 |-> at2]

\* Glyph classifier predicates
IsBoxDrawingChar(cp) == cp >= 9472 /\ cp <= 9599
IsBlockElement(cp) == cp >= 9600 /\ cp <= 9631
IsBraillePattern(cp) == cp >= 10240 /\ cp <= 10495
IsSextant(cp) == cp >= 129792 /\ cp <= 129851
IsCornerTriangle(cp) == cp >= 9698 /\ cp <= 9701
IsPowerlineChar(cp) ==
  cp \in {57520, 57522, 57524, 57526, 9654, 9664, 9650, 9660, 9658, 9668}
IsLegacyWedge(cp) == cp >= 129852 /\ cp <= 129931
IsOctant(cp) == cp >= 118016 /\ cp <= 118245
IsSmoothMosaic(cp) == cp >= 129936 /\ cp <= 129967
IsRoundedCorner(cp) == cp >= 9581 /\ cp <= 9584
IsDashedLine(cp) == (cp >= 9476 /\ cp <= 9483) \/ (cp >= 9548 /\ cp <= 9551)

\* The routine renderCellText hands the codepoint to: the first test of its
\* if-chain that matches, host text (fillText) when none does.
GlyphRoutine(cp) ==
  IF IsBoxDrawingChar(cp) THEN "drawBoxChar"
  ELSE IF IsBlockElement(cp) THEN "drawBlockChar"
  ELSE IF IsBraillePattern(cp) THEN "drawBrailleChar"
  ELSE IF IsSextant(cp) THEN "drawSextantChar"
  ELSE IF IsCornerTriangle(cp) THEN "drawCornerTriangle"
  ELSE IF IsPowerlineChar(cp) THEN "drawPowerlineChar"
  ELSE IF IsLegacyWedge(cp) THEN "drawLegacyWedge"
  ELSE IF IsOctant(cp) THEN "drawOctant"
  ELSE IF IsSmoothMosaic(cp) THEN "drawSmoothMosaic"
  ELSE IF IsRoundedCorner(cp) THEN "drawRoundedCorner"
  ELSE IF IsDashedLine(cp) THEN "drawDashedLine"
  ELSE "fillText"

IsInSelectionRowsOnly(rd, x, y) ==
  IF ~IsSome(rd.currentSelectionCoords) THEN FALSE
  ELSE y >= Val(rd.currentSelectionCoords).startRow
       /\ y <= Val(rd.currentSelectionCoords).endRow

\* isInSelection(x, y) on the cached selection coordinates
IsInSelection(rd, x, y) ==
  IF ~IsSome(rd.currentSelectionCoords) THEN FALSE
  ELSE LET sel == Val(rd.currentSelectionCoords)
       IN IF sel.startRow = sel.endRow
          THEN y = sel.startRow /\ x >= sel.startCol /\ x <= sel.endCol
          ELSE IF y = sel.startRow THEN x >= sel.startCol
          ELSE IF y = sel.endRow THEN x <= sel.endCol
          ELSE y > sel.startRow /\ y < sel.endRow

\* isInRange of renderCellText on hoveredLinkRange
IsInRange(range, x, y) ==
  \/ (y = range.startY /\ x >= range.startX /\ (y < range.endY \/ x <= range.endX))
  \/ (y > range.startY /\ y < range.endY)
  \/ (y = range.endY /\ x <= range.endX /\ (y > range.startY \/ x >= range.startX))

\* renderCellBackground(cell, x, y)
RenderCellBackground(rd, cell, x, y) ==
  LET cellWidth == rd.metrics.width * cell.width
      cellY == y * rd.metrics.height
      inverse == HasFlag(cell, "INVERSE")
      bg_r == IF inverse THEN cell.fg_r ELSE cell.bg_r
      bg_g == IF inverse THEN cell.fg_g ELSE cell.bg_g
      bg_b == IF inverse THEN cell.fg_b ELSE cell.bg_b
      isDefaultBg == bg_r = 0 /\ bg_g = 0 /\ bg_b = 0
  IN IF IsInSelection(rd, x, y)
     THEN << Draw("cellBackground", x, y, cellWidth, Theme.selectionBackground,
                  "fillRect", 2, 2 * cellY) >>
     ELSE IF ~isDefaultBg
     THEN << Draw("cellBackground", x, y, cellWidth, RgbToCSS(bg_r, bg_g, bg_b),
                  "fillRect", 2, 2 * cellY) >>
     ELSE << >>

\* renderCellText(cell, x, y)
RenderCellText(rd, cell, x, y) ==
  LET cellWidth == rd.metrics.width * cell.width
      cellY == y * rd.metrics.height
      inverse == HasFlag(cell, "INVERSE")
      fillStyle ==
        IF IsInSelection(rd, x, y) THEN Theme.selectionForeground
        ELSE IF inverse THEN RgbToCSS(cell.bg_r, cell.bg_g, cell.bg_b)
        ELSE RgbToCSS(cell.fg_r, cell.fg_g, cell.fg_b)
      alpha2 == IF HasFlag(cell, "FAINT") THEN 1 ELSE 2
      codepoint == IF cell.codepoint = 0 THEN 32 ELSE cell.codepoint
      routine == GlyphRoutine(codepoint)
      textY2 == 2 * (cellY + Baseline(rd.metrics))
      underlineY2 == 2 * (cellY + Baseline(rd.metrics) + 2)
      strikeY2 == 2 * cellY + rd.metrics.height
  IN IF HasFlag(cell, "INVISIBLE") THEN << >>
     ELSE IF routine # "fillText"
     THEN << Draw("glyph", x, y, rd.metrics.width, fillStyle, routine, alpha2, 2 * cellY) >>
     ELSE << Draw("glyph", x, y, 0, fillStyle, routine, alpha2, textY2) >>
          \o (IF HasFlag(cell, "UNDERLINE")
              THEN << Draw("underline", x, y, cellWidth, fillStyle, "stroke", 2, underlineY2) >>
              ELSE << >>)
          \o (IF HasFlag(cell, "STRIKETHROUGH")
              THEN << Draw("strikethrough", x, y, cellWidth, fillStyle, "stroke", 2, strikeY2) >>
              ELSE << >>)
          \o (IF cell.hyperlink_id > 0 /\ cell.hyperlink_id = rd.hoveredHyperlinkId
              THEN << Draw("hyperlinkUnderline", x, y, cellWidth, HoverColor, "stroke", 2,
                           underlineY2) >>
              ELSE << >>)
          \o (IF IsSome(rd.hoveredLinkRange) /\ IsInRange(Val(rd.hoveredLinkRange), x, y)
              THEN << Draw("linkRangeUnderline", x, y, cellWidth, HoverColor, "stroke", 2,
                           underlineY2) >>
              ELSE << >>)

\* getBlockType(codepoint).type = 'shade'
IsShade(codepoint) == codepoint \in {9617, 9618, 9619}

GlobalAlphaAfterNoReset(cell, alpha4) ==
  IF HasFlag(cell, "INVISIBLE") THEN alpha4
  ELSE IF HasFlag(cell, "FAINT") THEN 2
  ELSE alpha4

\* ctx.globalAlpha, in quarters, when renderCellText(cell, x, y) returns;
\* alpha4 is its value on entry.  FAINT sets it to 0.5; drawBlockChar sets it
\* to the density of a shade and then to 1.0; every exit after the glyph sets
\* it to 1.0 when the cell is FAINT.
GlobalAlphaAfter(cell, alpha4) ==
  LET codepoint == IF cell.codepoint = 0 THEN 32 ELSE cell.codepoint
      faint == IF HasFlag(cell, "FAINT") THEN 2 ELSE alpha4
      drawn == IF GlyphRoutine(codepoint) = "drawBlockChar" /\ IsShade(codepoint)
               THEN 4 ELSE faint
  IN IF HasFlag(cell, "INVISIBLE") THEN alpha4
     ELSE IF HasFlag(cell, "FAINT") THEN 4
     ELSE drawn

\* ctx.globalAlpha after each renderCellText call of the text pass over
\* line[i..].
RECURSIVE AlphaPass(_, _, _)
AlphaPass(line, i, alpha4) ==
  IF i > Len(line) THEN << >>
  ELSE IF line[i].width = 0 THEN AlphaPass(line, i + 1, alpha4)
  ELSE << GlobalAlphaAfter(line[i], alpha4) >>
       \o AlphaPass(line, i + 1, GlobalAlphaAfter(line[i], alpha4))

\* The two passes of renderLine over line[from..], x = index - 1.
RECURSIVE BackgroundPass(_, _, _, _)
BackgroundPass(rd, line, y, i) ==
  IF i > Len(line) THEN << >>
  ELSE (IF line[i].width = 0 THEN << >> ELSE RenderCellBackground(rd, line[i], i - 1, y))
       \o BackgroundPass(rd, line, y, i + 1)

RECURSIVE TextPassDrawsSpacers(_, _, _, _)
TextPassDrawsSpacers(rd, line, y, i) ==
  IF i > Len(line) THEN << >>
  ELSE RenderCellText(rd, line[i], i - 1, y) \o TextPassDrawsSpacers(rd, line, y, i + 1)

RECURSIVE TextPass(_, _, _, _)
TextPass(rd, line, y, i) ==
  IF i > Len(line) THEN << >>
  ELSE (IF line[i].width = 0 THEN << >> ELSE RenderCellText(rd, line[i], i - 1, y))
       \o TextPass(rd, line, y, i + 1)

RenderLineTextFirst(rd, line, y, cols) ==
  << Draw("clearRow", 0, y, cols * rd.metrics.width, Theme.background, "fillRect", 2,
          2 * y * rd.metrics.height) >>
  \o TextPass(rd, line, y, 1)
  \o BackgroundPass(rd, line, y, 1)

\* renderLine(line, y, cols)
RenderLine(rd, line, y, cols) ==
  << Draw("clearRow", 0, y, cols * rd.metrics.width, Theme.background, "fillRect", 2,
          2 * y * rd.metrics.height) >>
  \o BackgroundPass(rd, line, y, 1)
  \o TextPass(rd, line, y, 1)

\* ------------------------------------------------- canvas sizing
\* The surface is followed only in the behaviours of CanvasSpec (followed);
\* in the others it is left out.
NoSurface == [followed |-> FALSE, rows |-> << >>]

NoBar == [state |-> "none", vy2 |-> 0, length |-> 0, opacity |-> 0]

BlankRow == [pix |-> << >>, cursor |-> -1, bar |-> NoBar]

\* Setting canvas.width / canvas.height resets the canvas.
BlankSurface(rows) == [followed |-> TRUE, rows |-> [y \in RowSet(rows) |-> BlankRow]]

NeedsResize(rd, dims) ==
  \/ rd.canvas.width * 2 # dims.cols * rd.metrics.width * rd.dpr2
  \/ rd.canvas.height * 2 # dims.rows * rd.metrics.height * rd.dpr2

\* canvas.width = cssWidth * dpr: the canvas keeps the integer part
ResizeStyleOnly(rd, cols, rows) == rd

Resize(rd, cols, rows) ==
  [rd EXCEPT !.canvas =
     [width  |-> (cols * rd.metrics.width * rd.dpr2) \div 2,
      height |-> (rows * rd.metrics.height * rd.dpr2) \div 2],
             !.surface = IF @.followed THEN BlankSurface(rows) ELSE @]

ResizeOps(rd, cols, rows) ==
  << Op("resize", "size", cols, rows, "-"),
     Op("fillRect", "size", cols * rd.metrics.width, rows * rd.metrics.height, "-") >>

\* ------------------------------------------------- cursor lines
CursorMoved(cursor, last) == cursor.x # last.x \/ cursor.y # last.y

CursorLineOps(b, rd, cursor, forceAll) ==
  LET last == rd.lastCursorPosition
      moved == CursorMoved(cursor, last)
      cur == IF ~forceAll /\ ~IsRowDirty(b, cursor.y)
             THEN << Op("getLine", "cursor", cursor.y, cursor.y, "buffer") >>
                  \o RenderLineOps("cursor", GetLine(b, cursor.y), cursor.y)
             ELSE << >>
      old == IF moved /\ last.y # cursor.y /\ ~forceAll /\ ~IsRowDirty(b, last.y)
             THEN << Op("getLine", "cursor", last.y, last.y, "buffer") >>
                  \o RenderLineOps("cursor", GetLine(b, last.y), last.y)
             ELSE << >>
  IN IF moved \/ rd.cursorBlink THEN cur \o old ELSE << >>

\* ------------------------------------------------- selection rows
SelectionRows(coords, dirtyRows) ==
  (IF IsSome(coords) THEN Val(coords).startRow .. Val(coords).endRow ELSE {})
  \cup dirtyRows

\* ------------------------------------------------- line fetch
\* The call made for viewport row y and the line it returns.
HyperlinkScanFetch(b, sb, vy2, y) ==
  IF vy2 > 0
  THEN IF 2 * y < vy2 /\ sb.present
       THEN LET off == ScrollbackLength(sb) - Floor(vy2) + y
            IN [call |-> Op("getScrollbackLine", "links", y, off, "scrollback"),
                line |-> GetScrollbackLine(sb, off)]
       ELSE LET screenRow == y - Floor(vy2)
            IN [call |-> Op("getLine", "links", y, screenRow, "buffer"),
                line |-> GetLine(b, screenRow)]
  ELSE [call |-> Op("getLine", "links", y, y, "buffer"), line |-> GetLine(b, y)]

RowFetchOffByOne(b, sb, vy2, y) ==
  IF vy2 > 0
  THEN IF 2 * (y + 1) < vy2 /\ sb.present
       THEN LET off == ScrollbackLength(sb) - Floor(vy2) + y
            IN [call |-> Op("getScrollbackLine", "rows", y, off, "scrollback"),
                line |-> GetScrollbackLine(sb, off)]
       ELSE LET screenRow == IF vy2 > 0 THEN y - Floor(vy2) ELSE y
            IN [call |-> Op("getLine", "rows", y, screenRow, "buffer"),
                line |-> GetLine(b, screenRow)]
  ELSE [call |-> Op("getLine", "rows", y, y, "buffer"), line |-> GetLine(b, y)]

RowFetch(b, sb, vy2, y) ==
  IF vy2 > 0
  THEN IF 2 * y < vy2 /\ sb.present
       THEN LET off == ScrollbackLength(sb) - Floor(vy2) + y
            IN [call |-> Op("getScrollbackLine", "rows", y, off, "scrollback"),
                line |-> GetScrollbackLine(sb, off)]
       ELSE LET screenRow == IF vy2 > 0 THEN y - Floor(vy2) ELSE y
            IN [call |-> Op("getLine", "rows", y, screenRow, "buffer"),
                line |-> GetLine(b, screenRow)]
  ELSE [call |-> Op("getLine", "rows", y, y, "buffer"), line |-> GetLine(b, y)]

\* ------------------------------------------------- link rows
\* Rows holding a cell of the hovered or the previously hovered hyperlink.
HyperlinkIdRows(b, sb, rd, vy2) ==
  { y \in RowSet(b.dims.rows) :
      LET f == HyperlinkScanFetch(b, sb, vy2, y)
      IN /\ IsSome(f.line)
         /\ LineLinks(Val(f.line), b.dims.cols)
              \cap {rd.hoveredHyperlinkId, rd.previousHoveredHyperlinkId} # {} }

RECURSIVE HyperlinkScanOps(_, _, _, _)
HyperlinkScanOps(b, sb, vy2, y) ==
  IF y >= b.dims.rows THEN << >>
  ELSE << HyperlinkScanFetch(b, sb, vy2, y).call >> \o HyperlinkScanOps(b, sb, vy2, y + 1)

RangeRows(range) ==
  IF IsSome(range) THEN Val(range).startY .. Val(range).endY ELSE {}

HyperlinkRowsNewRangeOnly(b, sb, rd, vy2) ==
  (IF rd.hoveredHyperlinkId # rd.previousHoveredHyperlinkId
   THEN HyperlinkIdRows(b, sb, rd, vy2) ELSE {})
  \cup
  (IF rd.hoveredLinkRange # rd.previousHoveredLinkRange
   THEN RangeRows(rd.hoveredLinkRange) ELSE {})

\* hyperlinkRows: rows to redraw because the hover changed
HyperlinkRows(b, sb, rd, vy2) ==
  (IF rd.hoveredHyperlinkId # rd.previousHoveredHyperlinkId
   THEN HyperlinkIdRows(b, sb, rd, vy2) ELSE {})
  \cup
  (IF rd.hoveredLinkRange # rd.previousHoveredLinkRange
   THEN RangeRows(rd.previousHoveredLinkRange) \cup RangeRows(rd.hoveredLinkRange)
   ELSE {})

\* ------------------------------------------------- rows to render
NeedsRenderNoSelection(b, vy2, forceAll, selectionRows, hyperlinkRows, y) ==
  IF vy2 > 0 THEN TRUE
  ELSE forceAll \/ IsRowDirty(b, y) \/ y \in hyperlinkRows

NeedsRenderNoDirty(b, vy2, forceAll, selectionRows, hyperlinkRows, y) ==
  IF vy2 > 0 THEN TRUE
  ELSE forceAll \/ y \in selectionRows \/ y \in hyperlinkRows

NeedsRender(b, vy2, forceAll, selectionRows, hyperlinkRows, y) ==
  IF vy2 > 0 THEN TRUE
  ELSE forceAll \/ IsRowDirty(b, y) \/ y \in selectionRows \/ y \in hyperlinkRows

RowsToRenderAll(b, vy2, forceAll, selectionRows, hyperlinkRows) ==
  RowSet(b.dims.rows)

\* rowsToRender: the rows that need rendering and their neighbours
RowsToRender(b, vy2, forceAll, selectionRows, hyperlinkRows) ==
  LET rows == b.dims.rows
      need == { y \in RowSet(rows) :
                  NeedsRender(b, vy2, forceAll, selectionRows, hyperlinkRows, y) }
  IN need \cup { y - 1 : y \in { z \in need : z > 0 } }
          \cup { y + 1 : y \in { z \in need : z < rows - 1 } }

RECURSIVE RowLoopOps(_, _, _, _, _)
RowLoopOps(b, sb, vy2, rowsToRender, y) ==
  IF y >= b.dims.rows THEN << >>
  ELSE (IF y \in rowsToRender
        THEN LET f == RowFetch(b, sb, vy2, y)
             IN << f.call >> \o RenderLineOps("rows", f.line, y)
        ELSE << >>)
       \o RowLoopOps(b, sb, vy2, rowsToRender, y + 1)

\* ------------------------------------------------- cursor and scrollbar
ShouldDrawCursorIgnoresSuppress(rd, cursor, vy2) ==
  vy2 = 0 /\ cursor.visible /\ rd.cursorVisible

ShouldDrawCursor(rd, cursor, vy2) ==
  vy2 = 0 /\ cursor.visible /\ rd.cursorVisible /\ ~rd.cursorSuppressed

RenderCursorOps(x, y) == << Op("renderCursor", "cursor", y, x, "-") >>

\* renderScrollbar(viewportY, scrollbackLength, visibleRows, opacity)
RenderScrollbarOps(vy2, scrollbackLength, opacity) ==
  << Op("clearGutter", "scrollbar", 0, 0, "-") >>
  \o (IF opacity <= 0 \/ scrollbackLength = 0 THEN << >>
      ELSE << Op("track", "scrollbar", 0, 0, "-"), Op("thumb", "scrollbar", 0, 0, "-") >>)

ScrollbarOps(sb, vy2, opacity) ==
  IF sb.present /\ opacity > 0
  THEN RenderScrollbarOps(vy2, ScrollbackLength(sb), opacity)
  ELSE << >>

\* ------------------------------------------------- the surface
\* What the canvas shows, row by row: pix the draws of the last renderLine on
\* the row (none since the canvas was last reset), cursor the column of a
\* cursor drawn over it since (-1 for none), bar what renderScrollbar last
\* drew over the row's right end since.
\* The rows of the surface after the call logged as e; rdp is the renderer as
\* renderLine reads it at that point.
ApplyOp(rows, e, rdp, cols, vy2, scrollbackLength, opacity) ==
  IF e.op = "resize" THEN BlankSurface(e.i).rows
  ELSE IF e.op = "renderLine" /\ e.y \in DOMAIN rows
  THEN [rows EXCEPT ![e.y] =
          [pix |-> RenderLine(rdp, LineCells([src |-> e.src, idx |-> e.i], cols), e.y, cols),
           cursor |-> -1, bar |-> NoBar]]
  ELSE IF e.op = "renderCursor" /\ e.y \in DOMAIN rows
  THEN [rows EXCEPT ![e.y].cursor = e.i]
  ELSE IF e.op = "clearGutter"
  THEN [y \in DOMAIN rows |-> [rows[y] EXCEPT !.bar = [NoBar EXCEPT !.state = "cleared"]]]
  ELSE IF e.op = "track"
  THEN [y \in DOMAIN rows |->
          [rows[y] EXCEPT !.bar = [state |-> "track", vy2 |-> 0,
                                   length |-> 0, opacity |-> opacity]]]
  ELSE IF e.op = "thumb"
  THEN [y \in DOMAIN rows |->
          [rows[y] EXCEPT !.bar = [state |-> "thumb", vy2 |-> vy2,
                                   length |-> scrollbackLength, opacity |-> opacity]]]
  ELSE rows

\* The rows of the surface after the calls log[k..]; the cursor-line pass paints with the
\* renderer as the frame found it (rd), every later call with the selection
\* the frame cached (rdRows).
RECURSIVE ApplyLog(_, _, _, _, _, _, _, _, _)
ApplyLog(rows, log, k, rd, rdRows, cols, vy2, scrollbackLength, opacity) ==
  IF k > Len(log) THEN rows
  ELSE ApplyLog(ApplyOp(rows, log[k], IF log[k].ph = "cursor" THEN rd ELSE rdRows,
                        cols, vy2, scrollbackLength, opacity),
                log, k + 1, rd, rdRows, cols, vy2, scrollbackLength, opacity)

\* ------------------------------------------------- render()
\* forceAll after the three triggers render() checks before painting.
ForceAllNoFullRedrawCheck(b, rd, forceAllArg, vy2) ==
  \/ forceAllArg
  \/ NeedsResize(rd, b.dims)
  \/ vy2 # rd.lastViewportY

ForceAll(b, rd, forceAllArg, vy2) ==
  \/ forceAllArg
  \/ NeedsFullRedraw(b)
  \/ NeedsResize(rd, b.dims)
  \/ vy2 # rd.lastViewportY

\* The selection coordinates cached for the frame.
CurrentSelectionCoords(rd, sm) ==
  IF rd.selectionManager /\ HasSelection(sm) THEN sm.coords ELSE Null

\* The last statement of render(): buffer.clearDirty().
FinishFrameSkipsFullRedraw(b, forceAll) == IF forceAll THEN b ELSE ClearDirty(b)
FinishFrame(b, forceAll) == ClearDirty(b)

\* render(buffer, forceAll, viewportY, scrollbackProvider, scrollbarOpacity):
\* the state it leaves and the frame record of what it did.
RenderCall(b, sb, sm, rd, forceAllArg, vy2, opacity) ==
  LET cursor == b.cursor
      dims == b.dims
      needsResize == NeedsResize(rd, dims)
      rd1 == IF needsResize THEN Resize(rd, dims.cols, dims.rows) ELSE rd
      forceAll == ForceAll(b, rd, forceAllArg, vy2)
      cursorOps == CursorLineOps(b, rd, cursor, forceAll)
      coords == CurrentSelectionCoords(rd, sm)
      dirtySel == IF rd.selectionManager THEN sm.dirtyRows ELSE {}
      selectionRows == SelectionRows(coords, dirtySel)
      hyperlinkChanged == rd.hoveredHyperlinkId # rd.previousHoveredHyperlinkId
      hyperlinkRows == HyperlinkRows(b, sb, rd, vy2)
      rowsToRender == RowsToRender(b, vy2, forceAll, selectionRows, hyperlinkRows)
      shouldDrawCursor == ShouldDrawCursor(rd, cursor, vy2)
      log ==
        (IF needsResize THEN ResizeOps(rd, dims.cols, dims.rows) ELSE << >>)
        \o cursorOps
        \o (IF dirtySel # {}
            THEN << Op("clearDirtySelectionRows", "selection", 0, 0, "-") >> ELSE << >>)
        \o (IF hyperlinkChanged THEN HyperlinkScanOps(b, sb, vy2, 0) ELSE << >>)
        \o RowLoopOps(b, sb, vy2, rowsToRender, 0)
        \o (IF shouldDrawCursor THEN RenderCursorOps(cursor.x, cursor.y) ELSE << >>)
        \o ScrollbarOps(sb, vy2, opacity)
        \o << Op("clearDirty", "end", 0, 0, "-") >>
  IN [ buffer |-> FinishFrame(b, forceAll),
       selmgr |-> IF dirtySel # {} THEN ClearDirtySelectionRows(sm) ELSE sm,
       renderer |->
         [rd1 EXCEPT !.surface =
                       IF rd.surface.followed
                       THEN [followed |-> TRUE,
                             rows |-> ApplyLog(rd.surface.rows, log, 1, rd,
                                               [rd EXCEPT !.currentSelectionCoords = coords],
                                               dims.cols, vy2, ScrollbackLength(sb), opacity)]
                       ELSE rd.surface,
                     !.lastViewportY = vy2,
                     !.currentSelectionCoords = coords,
                     !.previousHoveredHyperlinkId = rd.hoveredHyperlinkId,
                     !.previousHoveredLinkRange = rd.hoveredLinkRange,
                     !.lastCursorPosition = [x |-> cursor.x, y |-> cursor.y]],
       frame |->
         [ active |-> TRUE,
           forceAllArg |-> forceAllArg, vy2 |-> vy2, opacity |-> opacity,
           prevForced |-> FALSE,
           buffer |-> b, scrollback |-> sb, selmgr |-> sm, renderer |-> rd,
           needsResize |-> needsResize, forceAll |-> forceAll,
           selectionRows |-> selectionRows, hyperlinkRows |-> hyperlinkRows,
           rowsToRender |-> rowsToRender, log |-> log ] ]

\* ------------------------------------------------- blink timer
\* window.setInterval registers a new interval and returns its handle.
StartCursorBlink(rd) ==
  [rd EXCEPT !.cursorBlinkInterval = rd.nextInterval,
             !.intervals = @ \cup {rd.nextInterval},
             !.nextInterval = @ + 1]

StopCursorBlinkVisibleOnly(rd) == [rd EXCEPT !.cursorVisible = TRUE]

StopCursorBlinkKeepsInterval(rd) ==
  [rd EXCEPT !.cursorBlinkInterval = 0, !.cursorVisible = TRUE]

\* clearInterval on the handle held, if any
StopCursorBlink(rd) ==
  [rd EXCEPT !.cursorBlinkInterval = 0,
             !.intervals = IF rd.cursorBlinkInterval # 0
                           THEN @ \ {rd.cursorBlinkInterval} ELSE @,
             !.cursorVisible = TRUE]

\* ------------------------------------------------- initial state
\* new CanvasRenderer(canvas, options) on a fresh canvas (300 x 150)
NewRenderer(attached, blink, dpr2) ==
  LET rd == [ canvas |-> [width |-> 300, height |-> 150],
              surface |-> NoSurface,
              metrics |-> InitialMetrics, dpr2 |-> dpr2,
              cursorBlink |-> blink, cursorVisible |-> TRUE,
              cursorBlinkInterval |-> 0,
              disposed |-> FALSE,
              intervals |-> {},
              nextInterval |-> 1,
              lastCursorPosition |-> [x |-> 0, y |-> 0],
              lastViewportY |-> 0,
              cursorSuppressed |-> FALSE,
              selectionManager |-> attached,
              currentSelectionCoords |-> Null,
              hoveredHyperlinkId |-> 0, previousHoveredHyperlinkId |-> 0,
              hoveredLinkRange |-> Null, previousHoveredLinkRange |-> Null ]
  IN IF rd.cursorBlink THEN StartCursorBlink(rd) ELSE rd

\* The renderer rd just constructed, and a terminal that has not been drawn
\* yet.
Fresh(rd) ==
  /\ buffer = [ dims |-> [cols |-> Cols, rows |-> Rows],
                dirty |-> RowSet(Rows), marked |-> RowSet(Rows),
                fullRedraw |-> FALSE, nullRows |-> {},
                cursor |-> [x |-> 0, y |-> 0, visible |-> TRUE] ]
  /\ scrollback = [present |-> FALSE, length |-> 0]
  /\ selmgr = [coords |-> Null, dirtyRows |-> {}]
  /\ renderer = rd
  /\ host = [viewportY |-> 0, scrollbarOpacity |-> 1]
  /\ frame = IdleFrame
  /\ changes = 0
  /\ paint = NoPaint
  /\ wasm = NoWasm

\* A renderer constructed on a fresh canvas (300 x 150) with the default
\* options, wired to a selection manager or not.
Init == \E attached \in BOOLEAN : Fresh(NewRenderer(attached, FALSE, 2))

\* ------------------------------------------------- actions
\* Every call other than render() counts as one change and leaves the frame
\* record idle.
Change ==
  /\ ~renderer.disposed
  /\ changes < MaxChanges
  /\ changes' = changes + 1
  /\ frame' = IdleFrame

\* The frame loop calls render(buffer, forceAll, viewportY, provider, opacity).
\* prevForced (where the surface is followed): the call follows, with nothing
\* changed in between, a render() that was passed forceAll = true.
Render ==
  \E forceAllArg \in BOOLEAN :
    \E res \in { RenderCall(buffer, scrollback, selmgr, renderer, forceAllArg,
                             host.viewportY, host.scrollbarOpacity) } :
       /\ buffer' = res.buffer
       /\ selmgr' = res.selmgr
       /\ renderer' = res.renderer
       /\ frame' = [res.frame EXCEPT !.prevForced =
                       renderer.surface.followed /\ frame.active /\ frame.forceAllArg]
       /\ UNCHANGED << wasm, paint, scrollback, host, changes >>

\* The emulator writes to row y and marks it dirty.
Write ==
  \E y \in RowSet(buffer.dims.rows) :
    /\ Change
    /\ buffer' = [buffer EXCEPT !.dirty = @ \cup {y}, !.marked = @ \cup {y}]
    /\ UNCHANGED << wasm, paint, scrollback, selmgr, renderer, host >>

\* The emulator switches between the normal and the alternate screen.
SwitchScreen ==
  /\ Change
  /\ buffer' = [buffer EXCEPT !.fullRedraw = TRUE]
  /\ UNCHANGED << wasm, paint, scrollback, selmgr, renderer, host >>

\* The cursor moves by one cell.
MoveCursor ==
  \E c \in CursorSet :
    /\ c.x < buffer.dims.cols /\ c.y < buffer.dims.rows
    /\ \/ c.x = buffer.cursor.x /\ c.y \in {buffer.cursor.y - 1, buffer.cursor.y + 1}
       \/ c.y = buffer.cursor.y /\ c.x \in {buffer.cursor.x - 1, buffer.cursor.x + 1}
    /\ Change
    /\ buffer' = [buffer EXCEPT !.cursor.x = c.x, !.cursor.y = c.y]
    /\ UNCHANGED << wasm, paint, scrollback, selmgr, renderer, host >>

SetCursorVisible ==
  /\ Change
  /\ buffer' = [buffer EXCEPT !.cursor.visible = ~@]
  /\ UNCHANGED << wasm, paint, scrollback, selmgr, renderer, host >>

\* The terminal is resized; every row of the new grid is dirty.
BufferResize ==
  \E d \in DimsSet :
    /\ d # buffer.dims
    /\ Change
    /\ buffer' = [buffer EXCEPT !.dims = d, !.dirty = RowSet(d.rows),
                                !.marked = RowSet(d.rows), !.nullRows = {},
                                !.cursor.x = 0, !.cursor.y = 0]
    /\ UNCHANGED << wasm, paint, scrollback, selmgr, renderer, host >>

\* getLine(y) starts returning null for row y.
LineUnavailable ==
  \E y \in RowSet(buffer.dims.rows) \ buffer.nullRows :
    /\ Change
    /\ buffer' = [buffer EXCEPT !.nullRows = @ \cup {y}]
    /\ UNCHANGED << wasm, paint, scrollback, selmgr, renderer, host >>

\* ------------------------------------------------- cursor blinking
\* setCursorBlink(enabled); it is also called on a renderer that was disposed.
SetCursorBlink ==
  \E enabled \in BOOLEAN :
    /\ changes < MaxChanges /\ changes' = changes + 1
    /\ frame' = IdleFrame
    /\ renderer' =
         IF enabled /\ ~renderer.cursorBlink
         THEN StartCursorBlink([renderer EXCEPT !.cursorBlink = TRUE])
         ELSE IF ~enabled /\ renderer.cursorBlink
         THEN StopCursorBlink([renderer EXCEPT !.cursorBlink = FALSE])
         ELSE renderer
    /\ UNCHANGED << wasm, paint, buffer, scrollback, selmgr, host >>

\* The interval callback fires.
BlinkTick ==
  /\ renderer.intervals # {}
  /\ Change
  /\ renderer' = [renderer EXCEPT !.cursorVisible = ~@]
  /\ UNCHANGED << wasm, paint, buffer, scrollback, selmgr, host >>

\* dispose(); disposed records that it was called, and the frame record that
\* it was the last call.  Afterwards the renderer is handed only render(),
\* setCursorBlink() and dispose().
Dispose ==
  /\ changes < MaxChanges /\ changes' = changes + 1
  /\ frame' = [active |-> FALSE, disposed |-> TRUE]
  /\ renderer' = [StopCursorBlink(renderer) EXCEPT !.disposed = TRUE]
  /\ UNCHANGED << wasm, paint, buffer, scrollback, selmgr, host >>

\* ------------------------------------------------- public setters
SuppressCursor ==
  \E suppress \in BOOLEAN :
    /\ Change
    /\ renderer' = [renderer EXCEPT !.cursorSuppressed = suppress]
    /\ UNCHANGED << wasm, paint, buffer, scrollback, selmgr, host >>

\* setFontSize(size): the metrics are measured again.
SetFontSize ==
  \E m \in MetricsSet :
    /\ m # renderer.metrics
    /\ Change
    /\ renderer' = [renderer EXCEPT !.metrics = m]
    /\ UNCHANGED << wasm, paint, buffer, scrollback, selmgr, host >>

\* setFontFamily(family): the metrics are measured again.
SetFontFamily ==
  \E m \in MetricsSet :
    /\ m # renderer.metrics
    /\ Change
    /\ renderer' = [renderer EXCEPT !.metrics = m]
    /\ UNCHANGED << wasm, paint, buffer, scrollback, selmgr, host >>

\* remeasureFont() after the font has loaded: the metrics are measured again.
RemeasureFont ==
  \E m \in MetricsSet :
    /\ m # renderer.metrics
    /\ Change
    /\ renderer' = [renderer EXCEPT !.metrics = m]
    /\ UNCHANGED << wasm, paint, buffer, scrollback, selmgr, host >>

\* The terminal calls resize(cols, rows) with the dimensions of its grid;
\* resized records the arguments.
\* clear(): the whole canvas is filled with the background colour.
Clear ==
  /\ Change
  /\ renderer' = [renderer EXCEPT !.surface =
                     IF @.followed
                     THEN [followed |-> TRUE,
                           rows |-> [y \in DOMAIN @.rows |-> BlankRow]]
                     ELSE @]
  /\ UNCHANGED << wasm, paint, buffer, scrollback, selmgr, host >>

ResizeCall ==
  \E d \in { buffer.dims } :
    /\ ~renderer.disposed
    /\ changes < MaxChanges
    /\ changes' = changes + 1
    /\ frame' = [active |-> FALSE, resized |-> d]
    /\ renderer' = Resize(renderer, d.cols, d.rows)
    /\ UNCHANGED << wasm, paint, buffer, scrollback, selmgr, host >>

SetSelectionManager ==
  /\ ~renderer.selectionManager
  /\ Change
  /\ renderer' = [renderer EXCEPT !.selectionManager = TRUE]
  /\ UNCHANGED << wasm, paint, buffer, scrollback, selmgr, host >>

SetHoveredHyperlinkId ==
  \E id \in 0 .. MaxLinkId :
    /\ id # renderer.hoveredHyperlinkId
    /\ Change
    /\ renderer' = [renderer EXCEPT !.hoveredHyperlinkId = id]
    /\ UNCHANGED << wasm, paint, buffer, scrollback, selmgr, host >>

SetHoveredLinkRange ==
  \E range \in {Null} \cup { Some(r) : r \in LinkRangeSet } :
    /\ range # renderer.hoveredLinkRange
    /\ Change
    /\ renderer' = [renderer EXCEPT !.hoveredLinkRange = range]
    /\ UNCHANGED << wasm, paint, buffer, scrollback, selmgr, host >>

\* ------------------------------------------------- selection manager
\* The user selects, or clears the selection; the rows of the selection that
\* goes away are recorded as dirty selection rows.
Select ==
  \E coords \in {Null} \cup { Some(c) : c \in SelectionSet } :
    /\ coords # selmgr.coords
    /\ Change
    /\ selmgr' = [coords |-> coords,
                  dirtyRows |-> selmgr.dirtyRows \cup RangeOfSelection(selmgr.coords)]
    /\ UNCHANGED << wasm, paint, buffer, scrollback, renderer, host >>

\* ------------------------------------------------- scrollback provider
\* The host starts passing a scrollback provider to render(), or lines scroll
\* into (or are dropped from) its history.
SetScrollback ==
  \E n \in 0 .. MaxScrollback :
    /\ scrollback # [present |-> TRUE, length |-> n]
    /\ Change
    /\ scrollback' = [present |-> TRUE, length |-> n]
    /\ host' = [host EXCEPT !.viewportY = IF @ < 2 * n THEN @ ELSE 2 * n]
    /\ UNCHANGED << wasm, paint, buffer, selmgr, renderer >>

\* The user scrolls: 0 <= viewportY <= scrollbackLength, in half lines while a
\* smooth scroll is animating.
Scroll ==
  \E vy2 \in 0 .. (2 * ScrollbackLength(scrollback)) :
    /\ vy2 # host.viewportY
    /\ Change
    /\ host' = [host EXCEPT !.viewportY = vy2]
    /\ UNCHANGED << wasm, paint, buffer, scrollback, selmgr, renderer >>

\* The scrollbar fades out (opacity 0) or in (opacity > 0).
FadeScrollbar ==
  /\ Change
  /\ host' = [host EXCEPT !.scrollbarOpacity = 1 - @]
  /\ UNCHANGED << wasm, paint, buffer, scrollback, selmgr, renderer >>

Next ==
  \/ Render
  \/ SetScrollback
  \/ Scroll
  \/ FadeScrollbar
  \/ Write
  \/ SwitchScreen
  \/ MoveCursor
  \/ SetCursorVisible
  \/ BufferResize
  \/ LineUnavailable
  \/ SetCursorBlink
  \/ BlinkTick
  \/ Dispose
  \/ SuppressCursor
  \/ SetFontSize
  \/ SetFontFamily
  \/ RemeasureFont
  \/ ResizeCall
  \/ Clear
  \/ SetSelectionManager
  \/ SetHoveredHyperlinkId
  \/ SetHoveredLinkRange
  \/ Select

Spec == Init /\ [][Next]_vars

\* The renderer constructed with options.cursorBlink set.
BlinkInit == \E attached \in BOOLEAN : Fresh(NewRenderer(attached, TRUE, 2))

BlinkSpec == BlinkInit /\ [][Next]_vars

\* ------------------------------------------------- the canvas observed
\* The same renderer with its surface followed, blinking or not, on a display
\* of device pixel ratio 1 or 1.5.
CanvasInit ==
  \E attached, blink \in BOOLEAN, dpr2 \in DprSet :
    Fresh([NewRenderer(attached, blink, dpr2) EXCEPT !.surface = BlankSurface(0)])

CanvasSpec == CanvasInit /\ [][Next]_vars

\* ======================================================= painting one line
\* renderLine on its own: a line of Cols cells and the renderer fields the
\* cell painter reads (cached selection, hovered hyperlink, hovered range).
\* The line starts plain (letter A, light grey on red, width 1, no flags, no
\* link) under a renderer with no selection and no hover; at most MaxEdits of
\* these attributes are then changed, each at most once and in a fixed order,
\* before renderLine paints the line at some row.
MaxEdits == 2

PlainLine(cols) == [i \in 1 .. cols |-> PlainCell]

\* 1 a cell of its own, 2 a wide cell, 0 the spacer after a wide cell
WidthSet == {0, 1, 2}

FlagSeq == << "INVERSE", "INVISIBLE", "UNDERLINE", "STRIKETHROUGH", "FAINT" >>

\* null, A, box light horizontal, dashed triple horizontal, rounded corner
\* down-right, full block, box light diagonal (no entry in the box map),
\* medium shade
CodepointSet == {0, 65, 9472, 9476, 9581, 9608, 9585, 9618}

\* Selection coordinates in row-major order, start not after end.
CellSelectionSet ==
  { s \in [startCol : {0, Cols - 1}, startRow : RowSet(Rows),
           endCol : {0, Cols - 1}, endRow : RowSet(Rows)] :
      \/ s.startRow < s.endRow
      \/ s.startRow = s.endRow /\ s.startCol <= s.endCol }

\* The place of an attribute in the order of the edits: the renderer's three
\* fields first, then the ten attributes of each cell, cell by cell.
Rank(i, k) == 3 + 10 * (i - 1) + k

CanEdit(rank) ==
  /\ ~paint.painted
  /\ paint.edits < MaxEdits
  /\ paint.rank < rank

EditLine(rank, line) ==
  /\ paint' = [paint EXCEPT !.line = line, !.rank = rank, !.edits = @ + 1]
  /\ UNCHANGED << wasm, buffer, scrollback, selmgr, renderer, host, frame, changes >>

EditRenderer(rank, rd) ==
  /\ paint' = [paint EXCEPT !.rank = rank, !.edits = @ + 1]
  /\ renderer' = rd
  /\ UNCHANGED << wasm, buffer, scrollback, selmgr, host, frame, changes >>

LineInit ==
  /\ buffer = [ dims |-> [cols |-> Cols, rows |-> Rows],
                dirty |-> RowSet(Rows), marked |-> RowSet(Rows),
                fullRedraw |-> FALSE, nullRows |-> {},
                cursor |-> [x |-> 0, y |-> 0, visible |-> TRUE] ]
  /\ scrollback = [present |-> FALSE, length |-> 0]
  /\ selmgr = [coords |-> Null, dirtyRows |-> {}]
  /\ renderer = NewRenderer(TRUE, FALSE, 2)
  /\ host = [viewportY |-> 0, scrollbarOpacity |-> 1]
  /\ frame = IdleFrame
  /\ changes = 0
  /\ paint = [NoPaint EXCEPT !.line = PlainLine(Cols)]
  /\ wasm = NoWasm

\* render() caches the selection manager's coordinates for the frame.
CacheSelection ==
  \E c \in CellSelectionSet :
    /\ CanEdit(1)
    /\ EditRenderer(1, [renderer EXCEPT !.currentSelectionCoords = Some(c)])

HoverHyperlink ==
  \E id \in 1 .. MaxLinkId :
    /\ CanEdit(2)
    /\ EditRenderer(2, [renderer EXCEPT !.hoveredHyperlinkId = id])

HoverLinkRange ==
  \E r \in LinkRangeSet :
    /\ CanEdit(3)
    /\ EditRenderer(3, [renderer EXCEPT !.hoveredLinkRange = Some(r)])

SetCellWidth ==
  \E i \in DOMAIN paint.line, w \in WidthSet \ {PlainCell.width} :
    /\ CanEdit(Rank(i, 1))
    /\ EditLine(Rank(i, 1), [paint.line EXCEPT ![i].width = w])

SetCellFlag ==
  \E i \in DOMAIN paint.line, k \in DOMAIN FlagSeq :
    /\ CanEdit(Rank(i, 1 + k))
    /\ EditLine(Rank(i, 1 + k), [paint.line EXCEPT ![i].flags = @ \cup {FlagSeq[k]}])

SetCellCodepoint ==
  \E i \in DOMAIN paint.line, cp \in CodepointSet \ {PlainCell.codepoint} :
    /\ CanEdit(Rank(i, 7))
    /\ EditLine(Rank(i, 7), [paint.line EXCEPT ![i].codepoint = cp])

\* black foreground
SetCellForeground ==
  \E i \in DOMAIN paint.line :
    /\ CanEdit(Rank(i, 8))
    /\ EditLine(Rank(i, 8),
                [paint.line EXCEPT ![i].fg_r = 0, ![i].fg_g = 0, ![i].fg_b = 0])

\* default (black) background
SetCellBackground ==
  \E i \in DOMAIN paint.line :
    /\ CanEdit(Rank(i, 9))
    /\ EditLine(Rank(i, 9),
                [paint.line EXCEPT ![i].bg_r = 0, ![i].bg_g = 0, ![i].bg_b = 0])

SetCellHyperlink ==
  \E i \in DOMAIN paint.line, id \in 1 .. MaxLinkId :
    /\ CanEdit(Rank(i, 10))
    /\ EditLine(Rank(i, 10), [paint.line EXCEPT ![i].hyperlink_id = id])

\* renderLine(line, y, dims.cols)
PaintLine ==
  \E y \in RowSet(buffer.dims.rows) :
    /\ ~paint.painted
    /\ paint' = [paint EXCEPT !.painted = TRUE, !.y = y,
                              !.draws = RenderLine(renderer, paint.line, y,
                                                   buffer.dims.cols),
                              !.alphas = AlphaPass(paint.line, 1, 4)]
    /\ UNCHANGED << wasm, buffer, scrollback, selmgr, renderer, host, frame, changes >>

LineNext ==
  \/ CacheSelection
  \/ HoverHyperlink
  \/ HoverLinkRange
  \/ SetCellWidth
  \/ SetCellFlag
  \/ SetCellCodepoint
  \/ SetCellForeground
  \/ SetCellBackground
  \/ SetCellHyperlink
  \/ PaintLine

LineSpec == LineInit /\ [][LineNext]_vars

\* ================================================================ frames
\* What the last render() call did, read off the frame record.
LogOps(op) == { k \in DOMAIN frame.log : frame.log[k].op = op }

\* renderLine was invoked for viewport row y.
Painted(y) == \E k \in LogOps("renderLine") : frame.log[k].y = y

\* renderLine was invoked for row y, by the row loop, with buffer line i.
PaintedFromBuffer(y, i) ==
  \E k \in LogOps("renderLine") :
    /\ frame.log[k].y = y /\ frame.log[k].ph = "rows"
    /\ frame.log[k].src = "buffer" /\ frame.log[k].i = i

FrameRows == RowSet(frame.buffer.dims.rows)

\* getLine(y) was non-null when the frame started.
LineAvailable(y) == IsSome(GetLine(frame.buffer, y))

\* ---------------------------------------------------------------- C1
\* C1: after every render() call - full or partial, scrolled or not, with or
\* without null lines - no row of the buffer is dirty, and the dirty selection
\* rows of the renderer's selection manager are empty.
C1_DirtyClearedAfterRender ==
  frame.active =>
    /\ \A y \in RowSet(Rows) : ~IsRowDirty(buffer, y)
    /\ renderer.selectionManager => selmgr.dirtyRows = {}

\* A partial frame that found dirty rows, one of them with a null line.
C1_Witness ==
  /\ frame.active /\ ~frame.forceAll
  /\ \E y \in frame.buffer.dirty : ~LineAvailable(y)

\* ---------------------------------------------------------------- C2
\* C2 as stated: at viewportY = 0, every row whose dirty bit the frame's
\* clearDirty() cleared was repainted from its current line in that frame.
C2_Original ==
  (frame.active /\ frame.vy2 = 0) =>
    \A y \in frame.buffer.dirty \ buffer.dirty : PaintedFromBuffer(y, y)

\* C2 amended: at viewportY = 0, every row whose dirty bit the frame's
\* clearDirty() cleared, and whose line was not null, was repainted from
\* getLine(y) in that frame; the rows marked since the previous clearDirty()
\* are all still dirty when the next frame starts (no mark is lost between
\* frames), so they are among the rows that frame repaints.
C2_DirtyConsumedBeforeCleared ==
  /\ buffer.marked \subseteq buffer.dirty
  /\ (frame.active /\ frame.vy2 = 0) =>
       /\ frame.buffer.marked \subseteq frame.buffer.dirty
       /\ \A y \in frame.buffer.dirty \ buffer.dirty :
            LineAvailable(y) => PaintedFromBuffer(y, y)

\* A partial frame at viewportY = 0 that repainted a row marked dirty after the
\* previous frame.
C2_Witness ==
  /\ frame.active /\ frame.vy2 = 0 /\ ~frame.forceAll
  /\ frame.renderer.lastCursorPosition.y \notin frame.buffer.marked
  /\ \E y \in frame.buffer.marked :
       /\ y \notin buffer.dirty /\ PaintedFromBuffer(y, y)
       /\ frame.buffer.marked # FrameRows

\* ---------------------------------------------------------------- C3
\* The rows a frame at viewportY = 0 has to repaint, read off the state the
\* frame started in.
InSelection(y) ==
  /\ frame.renderer.selectionManager /\ IsSome(frame.selmgr.coords)
  /\ y \in Val(frame.selmgr.coords).startRow .. Val(frame.selmgr.coords).endRow

InDirtySelection(y) ==
  frame.renderer.selectionManager /\ y \in frame.selmgr.dirtyRows

LinkChangeRow(y) ==
  LET rd == frame.renderer
  IN \/ /\ rd.hoveredHyperlinkId # rd.previousHoveredHyperlinkId
        /\ LineAvailable(y)
        /\ \E id \in BufferLineLinks(y, frame.buffer.dims.cols) :
             id = rd.hoveredHyperlinkId \/ id = rd.previousHoveredHyperlinkId
     \/ /\ rd.hoveredLinkRange # rd.previousHoveredLinkRange
        /\ \E r \in {rd.hoveredLinkRange, rd.previousHoveredLinkRange} :
             IsSome(r) /\ Val(r).startY <= y /\ y <= Val(r).endY

\* C3: in a render() at viewportY = 0, every row that is dirty, lies in the
\* selection's startRow..endRow, is a dirty selection row or is a link-change
\* row is repainted in that frame whenever its line is non-null.
C3_MarkedRowsRepainted ==
  (frame.active /\ frame.vy2 = 0) =>
    \A y \in FrameRows :
      ( /\ \/ y \in frame.buffer.dirty
           \/ InSelection(y)
           \/ InDirtySelection(y)
           \/ LinkChangeRow(y)
        /\ LineAvailable(y) )
      => PaintedFromBuffer(y, y)

\* A partial frame that repainted a row only because it lies in the selection.
C3_Witness ==
  /\ frame.active /\ frame.vy2 = 0 /\ ~frame.forceAll
  /\ \E y \in FrameRows :
       /\ InSelection(y) /\ PaintedFromBuffer(y, y)
       /\ y \notin frame.buffer.dirty /\ ~InDirtySelection(y) /\ ~LinkChangeRow(y)
       /\ y # frame.buffer.cursor.y

\* ---------------------------------------------------------------- C4
\* The cursor rows of a frame: the current cursor row when the cursor moved
\* or blinks, and the previous cursor row when the cursor changed line.
CursorRows ==
  LET cur == frame.buffer.cursor
      last == frame.renderer.lastCursorPosition
  IN IF cur.x # last.x \/ cur.y # last.y \/ frame.renderer.cursorBlink
     THEN {cur.y} \cup (IF cur.y # last.y THEN {last.y} ELSE {})
     ELSE {}

\* C4 as stated (at viewportY = 0, for rows whose line is not null): the
\* neighbours y-1 and y+1 of every dirty, selection, link or cursor row are
\* repainted in the same render().
C4_Original ==
  (frame.active /\ frame.vy2 = 0) =>
    \A y \in FrameRows :
      ( \/ y \in frame.buffer.dirty
        \/ InSelection(y) \/ InDirtySelection(y)
        \/ LinkChangeRow(y)
        \/ y \in CursorRows )
      => \A n \in {y - 1, y + 1} \cap FrameRows :
           LineAvailable(n) => Painted(n)

\* ---------------------------------------------------------------- C5
FullRedrawTrigger ==
  \/ frame.forceAllArg
  \/ frame.buffer.fullRedraw
  \/ NeedsResize(frame.renderer, frame.buffer.dims)
  \/ frame.vy2 # frame.renderer.lastViewportY

\* C5 as stated: a render() with a full-redraw trigger repaints every row.
C5_Original ==
  (frame.active /\ FullRedrawTrigger) => \A y \in FrameRows : Painted(y)

\* The line the row loop's fetch for row y returned: the call is in the log,
\* its result is what the collaborator answers for the index requested.
RowLoopFetches(y) ==
  { k \in DOMAIN frame.log :
      /\ frame.log[k].ph = "rows" /\ frame.log[k].y = y
      /\ frame.log[k].op \in {"getLine", "getScrollbackLine"} }

Fetched(k) ==
  IF frame.log[k].op = "getLine"
  THEN GetLine(frame.buffer, frame.log[k].i)
  ELSE GetScrollbackLine(frame.scrollback, frame.log[k].i)

\* C5 amended: a render() with a full-redraw trigger (forceAll passed,
\* needsFullRedraw(), canvas size mismatch and resize, or viewportY changed)
\* fetches the line of every row 0..rows-1 and repaints every row whose line
\* is not null; after a size mismatch the canvas has been resized.
C5_FullRedrawRepaintsAllRows ==
  (frame.active /\ FullRedrawTrigger) =>
    /\ \A y \in FrameRows :
         /\ Cardinality(RowLoopFetches(y)) = 1
         /\ \A k \in RowLoopFetches(y) : IsSome(Fetched(k)) => Painted(y)
    /\ NeedsResize(frame.renderer, frame.buffer.dims) =>
         /\ LogOps("resize") # {}
         /\ renderer.canvas.width =
              (frame.buffer.dims.cols * renderer.metrics.width * renderer.dpr2) \div 2
         /\ renderer.canvas.height =
              (frame.buffer.dims.rows * renderer.metrics.height * renderer.dpr2) \div 2

\* A frame whose only trigger is the screen switch, which repainted all rows.
C5_Witness ==
  /\ frame.active /\ frame.buffer.fullRedraw
  /\ ~frame.forceAllArg
  /\ ~NeedsResize(frame.renderer, frame.buffer.dims)
  /\ frame.vy2 = frame.renderer.lastViewportY
  /\ frame.buffer.dirty = {}
  /\ FrameRows # {}
  /\ \A y \in FrameRows : Painted(y)

\* ---------------------------------------------------------------- C6
\* C6 as stated: for every row the row loop paints, the line is fetched from
\* buffer.getLine(y) when viewportY = 0; else from
\* getScrollbackLine(scrollbackLength - floor(viewportY) + y) when
\* y < floor(viewportY); else from buffer.getLine(y - floor(viewportY)).
C6_Original ==
  frame.active =>
    \A y \in frame.rowsToRender : \A k \in RowLoopFetches(y) :
      LET call == frame.log[k]
          fl == Floor(frame.vy2)
      IN IF frame.vy2 = 0
         THEN call.op = "getLine" /\ call.i = y
         ELSE IF y < fl
         THEN /\ call.op = "getScrollbackLine"
              /\ call.i = ScrollbackLength(frame.scrollback) - fl + y
         ELSE call.op = "getLine" /\ call.i = y - fl

\* ---------------------------------------------------------------- C7
FullyScrolledUp ==
  /\ frame.scrollback.present /\ frame.scrollback.length > 0
  /\ frame.vy2 = 2 * frame.scrollback.length

C8_CursorDrawnIff ==
  frame.active =>
    /\ (LogOps("renderCursor") # {}) <=>
         ( /\ frame.vy2 = 0
           /\ frame.buffer.cursor.visible
           /\ frame.renderer.cursorVisible
           /\ ~frame.renderer.cursorSuppressed )
    /\ Cardinality(LogOps("renderCursor")) <= 1
    /\ \A k \in LogOps("renderCursor") :
         frame.log[k].i = frame.buffer.cursor.x /\ frame.log[k].y = frame.buffer.cursor.y

\* A frame that drew the cursor at a cell it had moved to.
C8_Witness ==
  /\ frame.active
  /\ frame.buffer.cursor.y > 0 /\ frame.buffer.cursor.x > 0
  /\ \E k \in LogOps("renderCursor") :
       frame.log[k].i = frame.buffer.cursor.x /\ frame.log[k].y = frame.buffer.cursor.y

\* ---------------------------------------------------------------- C9
\* C9 as stated (for a provider that holds scrollback): in every render()
\* given a scrollbackProvider the gutter is cleared first, also when
\* scrollbarOpacity is 0, and the track and thumb are then drawn if and only
\* if scrollbarOpacity > 0.
C9_Original ==
  (frame.active /\ frame.scrollback.present /\ frame.scrollback.length > 0) =>
    /\ LogOps("clearGutter") # {}
    /\ (LogOps("track") # {} /\ LogOps("thumb") # {}) <=> frame.opacity > 0
    /\ \A c \in LogOps("clearGutter") : \A t \in LogOps("track") \cup LogOps("thumb") : c < t

\* ---------------------------------------------------------------- C10
ZeroDimensions == frame.buffer.dims.cols = 0 \/ frame.buffer.dims.rows = 0

\* C10 as stated: with cols = 0 or rows = 0 render() does not resize the
\* canvas, fill a rectangle, draw the cursor or the scrollbar, and the dirty
\* bits are cleared by the end of the frame.
C10_Original ==
  (frame.active /\ ZeroDimensions) =>
    /\ \A k \in DOMAIN frame.log :
         frame.log[k].op \notin
           {"resize", "fillRect", "renderLine", "renderCursor", "clearGutter", "track", "thumb"}
    /\ buffer.dirty = {} /\ ~buffer.fullRedraw

\* C10 amended: with cols = 0 or rows = 0 render() has no early return: it
\* resizes the canvas exactly when its pixel size does not match, to
\* cols*width*dpr x rows*height*dpr, so that after the frame the canvas has
\* zero area and nothing filled on it is visible; with rows = 0 the link scan
\* and the row loop fetch and paint no row; the cursor and the scrollbar are
\* still drawn under their usual conditions; and the dirty bits are cleared
\* by the end of the frame.
C10_ZeroDimensionsFrame ==
  (frame.active /\ ZeroDimensions) =>
    /\ (LogOps("resize") # {}) <=> NeedsResize(frame.renderer, frame.buffer.dims)
    /\ renderer.canvas.width * renderer.canvas.height = 0
    /\ frame.buffer.dims.rows = 0 =>
         \A k \in DOMAIN frame.log : frame.log[k].ph \notin {"links", "rows"}
    /\ (LogOps("renderCursor") # {}) <=>
         ( /\ frame.vy2 = 0 /\ frame.buffer.cursor.visible
           /\ frame.renderer.cursorVisible /\ ~frame.renderer.cursorSuppressed )
    /\ (LogOps("clearGutter") # {}) <=> (frame.scrollback.present /\ frame.opacity > 0)
    /\ buffer.dirty = {} /\ ~buffer.fullRedraw

\* A frame on a grid without columns that found dirty rows, resized the canvas
\* and drew the cursor.
C10_Witness ==
  /\ frame.active /\ frame.buffer.dims.cols = 0
  /\ frame.buffer.dirty # {}
  /\ LogOps("resize") # {} /\ LogOps("renderCursor") # {}
  /\ renderer.canvas.width = 0

\* ---------------------------------------------------------------- C11
\* The rows the row loop selected for painting whose fetch returned null.
NullRows ==
  { y \in frame.rowsToRender :
      \E k \in RowLoopFetches(y) : ~IsSome(Fetched(k)) }

\* C11: a row selected for painting whose line is null is skipped entirely in
\* that frame (no renderLine call paints it), the remaining selected rows are
\* painted, and the frame ends with clearDirty().
C11_Original ==
  frame.active =>
    /\ \A y \in NullRows : ~Painted(y)
    /\ \A y \in frame.rowsToRender \ NullRows : Painted(y)
    /\ frame.log[Len(frame.log)].op = "clearDirty"
    /\ buffer.dirty = {} /\ ~buffer.fullRedraw

\* ============================================================ one line
\* What the renderLine call on paint.line drew for cell i (column i - 1).
CellDraws(i) ==
  { k \in DOMAIN paint.draws :
      paint.draws[k].op # "clearRow" /\ paint.draws[k].x = i - 1 }

CellDrawsOf(i, op) == { k \in CellDraws(i) : paint.draws[k].op = op }

\* ---------------------------------------------------------------- C12
\* C12: no fill, text or decoration draw is issued for a width-0 spacer cell,
\* whatever its colours, flags, codepoint, selection or hover state.
C12_SpacerCellsNeverDrawn ==
  paint.painted =>
    \A i \in DOMAIN paint.line :
      paint.line[i].width = 0 => CellDraws(i) = {}

\* A painted line with a selected spacer cell next to a cell that was drawn.
C12_Witness ==
  /\ paint.painted
  /\ \E i, j \in DOMAIN paint.line :
       /\ paint.line[i].width = 0
       /\ IsInSelection(renderer, i - 1, paint.y)
       /\ CellDrawsOf(j, "cellBackground") # {} /\ CellDrawsOf(j, "glyph") # {}

\* ---------------------------------------------------------------- C18
\* (startRow, startCol) <= (y, x) <= (endRow, endCol) in row-major order
RowMajorSelected(x, y) ==
  /\ IsSome(renderer.currentSelectionCoords)
  /\ LET sel == Val(renderer.currentSelectionCoords)
     IN /\ (sel.startRow < y \/ (sel.startRow = y /\ sel.startCol <= x))
        /\ (y < sel.endRow \/ (y = sel.endRow /\ x <= sel.endCol))

\* The cell's own colours after INVERSE
EffectiveBackground(cell) ==
  IF "INVERSE" \in cell.flags THEN << cell.fg_r, cell.fg_g, cell.fg_b >>
  ELSE << cell.bg_r, cell.bg_g, cell.bg_b >>

EffectiveForeground(cell) ==
  IF "INVERSE" \in cell.flags THEN << cell.bg_r, cell.bg_g, cell.bg_b >>
  ELSE << cell.fg_r, cell.fg_g, cell.fg_b >>

\* C18: a painted cell of width > 0 is filled with selectionBackground and its
\* text drawn in selectionForeground exactly when it lies in the cached
\* selection in row-major order, whatever its colours and INVERSE flag; every
\* other cell is filled with its own effective background (not at all when
\* that is black, the default) and its text drawn in its own effective
\* foreground.
C18_SelectionSolidReplacement ==
  paint.painted =>
    \A i \in DOMAIN paint.line :
      paint.line[i].width > 0 =>
        LET cell == paint.line[i]
            selected == RowMajorSelected(i - 1, paint.y)
            fills == CellDrawsOf(i, "cellBackground")
            glyphs == CellDrawsOf(i, "glyph")
        IN /\ selected =>
                /\ Cardinality(fills) = 1
                /\ \A k \in fills :
                     /\ paint.draws[k].style = Theme.selectionBackground
                     /\ paint.draws[k].w = renderer.metrics.width * cell.width
           /\ ~selected =>
                IF EffectiveBackground(cell) = << 0, 0, 0 >> THEN fills = {}
                ELSE /\ Cardinality(fills) = 1
                     /\ \A k \in fills : paint.draws[k].style = EffectiveBackground(cell)
           /\ (glyphs # {}) <=> "INVISIBLE" \notin cell.flags
           /\ \A k \in glyphs :
                paint.draws[k].style =
                  IF selected THEN Theme.selectionForeground
                  ELSE EffectiveForeground(cell)

\* A painted line with a selected INVERSE cell next to a cell outside the
\* selection, both drawn.
C18_Witness ==
  /\ paint.painted
  /\ \E i, j \in DOMAIN paint.line :
       /\ paint.line[i].width > 0 /\ "INVERSE" \in paint.line[i].flags
       /\ RowMajorSelected(i - 1, paint.y)
       /\ CellDrawsOf(i, "glyph") # {}
       /\ paint.line[j].width > 0 /\ ~RowMajorSelected(j - 1, paint.y)
       /\ CellDrawsOf(j, "cellBackground") # {} /\ CellDrawsOf(j, "glyph") # {}

\* ---------------------------------------------------------------- C19
\* C19 as stated: every cell of width > 0 whose glyph was drawn, by a
\* procedural routine or by host text, gets after the glyph an underline at
\* baseline + 2 when UNDERLINE is set, a line at height / 2 when STRIKETHROUGH
\* is set, a #4A90E2 underline when its nonzero hyperlink_id is the hovered
\* one, and a hover underline when it lies inside hoveredLinkRange.
C19_Original ==
  paint.painted =>
    \A i \in DOMAIN paint.line :
      \A g \in CellDrawsOf(i, "glyph") :
        LET cell == paint.line[i]
            cellY == paint.y * renderer.metrics.height
            After(op) == { k \in CellDrawsOf(i, op) : k > g }
        IN /\ "UNDERLINE" \in cell.flags =>
                \E k \in After("underline") :
                  paint.draws[k].at2 = 2 * (cellY + Baseline(renderer.metrics) + 2)
           /\ "STRIKETHROUGH" \in cell.flags =>
                \E k \in After("strikethrough") :
                  paint.draws[k].at2 = 2 * cellY + renderer.metrics.height
           /\ (cell.hyperlink_id # 0 /\ cell.hyperlink_id = renderer.hoveredHyperlinkId) =>
                \E k \in After("hyperlinkUnderline") : paint.draws[k].style = HoverColor
           /\ (IsSome(renderer.hoveredLinkRange)
               /\ IsInRange(Val(renderer.hoveredLinkRange), i - 1, paint.y)) =>
                After("linkRangeUnderline") # {}

\* ---------------------------------------------------------------- C20
\* C20 as stated: a drawn cell whose codepoint is a rounded corner
\* (U+256D-2570) is drawn by the rounded-corner procedure, and one whose
\* codepoint is in the dashed set (U+2504-250B, U+254C-254F) by the
\* dashed-line procedure, not by the box procedure.
C20_Original ==
  paint.painted =>
    \A i \in DOMAIN paint.line :
      \A g \in CellDrawsOf(i, "glyph") :
        /\ IsRoundedCorner(paint.line[i].codepoint) =>
             paint.draws[g].via = "drawRoundedCorner"
        /\ IsDashedLine(paint.line[i].codepoint) =>
             paint.draws[g].via = "drawDashedLine"

\* ---------------------------------------------------------------- C13
\* The draws on the surface of the last render() call, in order: each log
\* entry that draws, with the renderLine calls expanded into the draws of
\* renderLine on the cells of the line.  call is the index of the log entry.
\* The cursor-line pass paints with the selection cached by the previous
\* frame, the row loop with the selection cached by this one.
SurfaceDrawsOf(k) ==
  LET e == frame.log[k]
      rd == IF e.ph = "cursor" THEN frame.renderer ELSE renderer
      cols == frame.buffer.dims.cols
      One(op) == << Draw(op, e.i, e.y, 0, Theme.background, "fillRect", 2, 0) >>
      draws ==
        IF e.op = "renderLine"
        THEN RenderLine(rd, LineCells([src |-> e.src, idx |-> e.i], cols), e.y, cols)
        ELSE IF e.op \in {"renderCursor", "clearGutter", "track", "thumb"}
        THEN One(e.op)
        ELSE << >>
  IN [ n \in DOMAIN draws |-> [call |-> k, d |-> draws[n]] ]

RECURSIVE SurfaceDrawsFrom(_)
SurfaceDrawsFrom(k) ==
  IF k > Len(frame.log) THEN << >>
  ELSE SurfaceDrawsOf(k) \o SurfaceDrawsFrom(k + 1)

RowOps == {"clearRow", "cellBackground", "glyph", "underline", "strikethrough",
           "hyperlinkUnderline", "linkRangeUnderline"}
DecorationOps == {"underline", "strikethrough", "hyperlinkUnderline",
                  "linkRangeUnderline"}
ScrollbarDrawOps == {"clearGutter", "track", "thumb"}

\* The draws of the renderLine call logged as frame.log[k].
LineDrawsOf(k) ==
  RenderLine(IF frame.log[k].ph = "cursor" THEN frame.renderer ELSE renderer,
             LineCells([src |-> frame.log[k].src, idx |-> frame.log[k].i],
                       frame.buffer.dims.cols),
             frame.log[k].y, frame.buffer.dims.cols)

\* Where the draw sequence s has a draw of one of the kinds ops.
DrawsOf(s, ops) == { n \in DOMAIN s : s[n].op \in ops }

\* Rows before cursor before scrollbar, for the draw sequence s.
FrameOrder(s) ==
  \A m, n \in DOMAIN s :
    /\ (s[m].d.op \in RowOps /\ s[n].d.op = "renderCursor") => m < n
    /\ (s[m].d.op = "renderCursor" /\ s[n].d.op \in ScrollbarDrawOps) => m < n

Surface(rd) == rd.surface.rows

\* C14 as stated: render(buffer, forceAll = true) followed by
\* render(buffer, forceAll = false) with nothing changed in between leaves the
\* surface after the second call identical to the surface after the first.
C14_Original ==
  (frame.active /\ frame.prevForced /\ ~frame.forceAllArg) =>
    Surface(renderer) = Surface(frame.renderer)

\* ---------------------------------------------------------------- C15
\* The canvas pixel size is cols * charWidth * dpr by rows * charHeight * dpr.
CanvasFits(rd, dims) ==
  /\ rd.canvas.width * 2 = dims.cols * rd.metrics.width * rd.dpr2
  /\ rd.canvas.height * 2 = dims.rows * rd.metrics.height * rd.dpr2

\* C15 as stated: after every render() the canvas pixel size is
\* cols * charWidth * dpr by rows * charHeight * dpr for the buffer's
\* dimensions and the current metrics, and after every resize(cols, rows) it
\* is that for the arguments of the call.
C15_Original ==
  /\ frame.active => CanvasFits(renderer, buffer.dims)
  /\ (~frame.active /\ "resized" \in DOMAIN frame) => CanvasFits(renderer, frame.resized)

\* ---------------------------------------------------------------- C16
\* C16: from construction until dispose(), whatever setCursorBlink calls were
\* made, a blink timer is registered if and only if cursorBlink is true; once
\* dispose() has returned no blink timer is registered.
C16_BlinkTimerLifecycle ==
  /\ ~renderer.disposed => ((renderer.intervals # {}) <=> renderer.cursorBlink)
  /\ (~frame.active /\ "disposed" \in DOMAIN frame) => renderer.intervals = {}

\* dispose() was called on a renderer whose blinking had been switched on: the
\* flag is still set and the timer it had registered is gone.
C16_Witness ==
  /\ ~frame.active /\ "disposed" \in DOMAIN frame
  /\ renderer.disposed /\ renderer.cursorBlink
  /\ renderer.nextInterval > 1
  /\ renderer.intervals = {}

\* ---------------------------------------------------------------- C17
\* The hover state differs from what the previous render() recorded.
HoverIdChanged ==
  frame.renderer.hoveredHyperlinkId # frame.renderer.previousHoveredHyperlinkId

HoverRangeChanged ==
  frame.renderer.hoveredLinkRange # frame.renderer.previousHoveredLinkRange

\* The line render() fetches for viewport row y in this frame.
RowLine(y) == RowFetch(frame.buffer, frame.scrollback, frame.vy2, y).line

\* The line of row y holds a cell of the hovered or the previously hovered
\* hyperlink.
HoldsHoveredId(y) ==
  /\ IsSome(RowLine(y))
  /\ LineLinks(Val(RowLine(y)), frame.buffer.dims.cols)
       \cap {frame.renderer.hoveredHyperlinkId,
             frame.renderer.previousHoveredHyperlinkId} # {}

\* The grid rows of the previous and of the new hovered link range.
HoverRangeRows ==
  (RangeRows(frame.renderer.previousHoveredLinkRange)
     \cup RangeRows(frame.renderer.hoveredLinkRange)) \cap FrameRows

\* C17 as stated: when hoveredHyperlinkId differs from its value at the
\* previous render(), every visible row holding a cell with the previous or the
\* new id is repainted in this frame; when hoveredLinkRange differs, every row
\* in startY..endY of the previous and of the new range is repainted; after the
\* frame the previous-value fields equal the current values, and a render()
\* without a hover change marks no link rows.
C17_Original ==
  frame.active =>
    /\ HoverIdChanged => \A y \in FrameRows : HoldsHoveredId(y) => Painted(y)
    /\ HoverRangeChanged => \A y \in HoverRangeRows : Painted(y)
    /\ renderer.previousHoveredHyperlinkId = renderer.hoveredHyperlinkId
    /\ renderer.previousHoveredLinkRange = renderer.hoveredLinkRange
    /\ (~HoverIdChanged /\ ~HoverRangeChanged) => frame.hyperlinkRows = {}

\* C17 amended: as stated, except that a row of the previous or of the new
\* range is repainted only when the line render() fetches for it is not null.
C17_HoverChangeRepaints ==
  frame.active =>
    /\ HoverIdChanged => \A y \in FrameRows : HoldsHoveredId(y) => Painted(y)
    /\ HoverRangeChanged =>
         \A y \in HoverRangeRows : IsSome(RowLine(y)) => Painted(y)
    /\ renderer.previousHoveredHyperlinkId = renderer.hoveredHyperlinkId
    /\ renderer.previousHoveredLinkRange = renderer.hoveredLinkRange
    /\ (~HoverIdChanged /\ ~HoverRangeChanged) => frame.hyperlinkRows = {}

\* A partial frame at viewportY = 0 with no dirty row, after both the hovered
\* hyperlink and the hovered link range changed, that repainted the rows of
\* the link and of the range.
C17_Witness ==
  /\ frame.active /\ ~frame.forceAll /\ frame.vy2 = 0
  /\ frame.buffer.dirty = {}
  /\ HoverIdChanged /\ HoverRangeChanged
  /\ frame.renderer.hoveredHyperlinkId > 0
  /\ \E y \in FrameRows : HoldsHoveredId(y) /\ Painted(y)
  /\ \E y \in HoverRangeRows : Painted(y)
  /\ renderer.previousHoveredHyperlinkId = frame.renderer.hoveredHyperlinkId

\* ---------------------------------------------------------------- C24
\* Row y is dirty, a selection or dirty-selection row, or a link-change row.
MarkedRow(y) ==
  \/ y \in frame.buffer.dirty
  \/ InSelection(y) \/ InDirtySelection(y)
  \/ LinkChangeRow(y)

\* C24: in a render() at viewportY = 0 with no full-redraw trigger, renderLine
\* is not invoked for a row that is not dirty, not a selection or
\* dirty-selection row, not a link-change row, not a cursor row and not next
\* to a dirty, selection or link row.
C24_PartialRedrawLeavesRows ==
  (frame.active /\ frame.vy2 = 0 /\ ~FullRedrawTrigger) =>
    \A y \in FrameRows :
      ( /\ ~MarkedRow(y)
        /\ y \notin CursorRows
        /\ \A n \in {y - 1, y + 1} \cap FrameRows : ~MarkedRow(n) )
      => ~Painted(y)

\* A partial frame that repainted a written row and its neighbour and left
\* another row, with an available line, alone.
C24_Witness ==
  /\ frame.active /\ frame.vy2 = 0 /\ ~FullRedrawTrigger
  /\ frame.buffer.dirty # {}
  /\ \E y \in frame.buffer.dirty : Painted(y)
  /\ \E y \in FrameRows :
       /\ LineAvailable(y) /\ ~Painted(y)
       /\ ~MarkedRow(y) /\ y \notin CursorRows

\* ---------------------------------------------------------------- C28
\* C28: whatever setCursorBlink() and dispose() calls follow construction, at
\* most one blink timer is registered, and a registered timer is the one
\* whose handle the renderer holds.
C28_OneBlinkInterval ==
  /\ Cardinality(renderer.intervals) <= 1
  /\ \A h \in renderer.intervals : renderer.cursorBlinkInterval = h

\* Blinking was switched off and on again: a second timer was started and is
\* the only one registered.
C28_Witness ==
  /\ renderer.nextInterval > 2
  /\ Cardinality(renderer.intervals) = 1
  /\ renderer.cursorBlink

\* ---------------------------------------------------------------- C29
\* The fetches of the row loop and of the hyperlink scan.
LineFetches ==
  { k \in DOMAIN frame.log :
      /\ frame.log[k].ph \in {"rows", "links"}
      /\ frame.log[k].op \in {"getLine", "getScrollbackLine"} }

\* C29 as stated: in a render() with 0 <= viewportY <= scrollbackLength
\* (whole or fractional, provider or not), every offset the row loop and the
\* hyperlink scan pass to getScrollbackLine is in 0..scrollbackLength-1 and
\* every index they pass to buffer.getLine is in 0..rows-1.
C29_Original ==
  (frame.active /\ frame.vy2 <= 2 * ScrollbackLength(frame.scrollback)) =>
    \A k \in LineFetches :
      IF frame.log[k].op = "getScrollbackLine"
      THEN frame.log[k].i \in 0 .. (ScrollbackLength(frame.scrollback) - 1)
      ELSE frame.log[k].i \in RowSet(frame.buffer.dims.rows)

\* ---------------------------------------------------------------- C26
\* C26 as stated: after a render() at viewportY = 0 that follows renders at
\* viewportY = 0, the surface shows a cursor at most at the current cursor
\* cell, and none when that render() did not draw the cursor.
C26_Original ==
  ( /\ frame.active /\ renderer.surface.followed
    /\ frame.vy2 = 0 /\ frame.renderer.lastViewportY = 0 ) =>
    \A y \in DOMAIN Surface(renderer) :
      Surface(renderer)[y].cursor # -1 =>
        /\ LogOps("renderCursor") # {}
        /\ y = frame.buffer.cursor.y
        /\ Surface(renderer)[y].cursor = frame.buffer.cursor.x

\* ---------------------------------------------------------------- C25
\* What row y of the surface shows when it holds buffer line y as the
\* renderer, with the selection it has just read, paints it.
CurrentRowImage(y) ==
  RenderLine([frame.renderer EXCEPT
                !.currentSelectionCoords = renderer.currentSelectionCoords],
             LineCells([src |-> "buffer", idx |-> y], frame.buffer.dims.cols),
             y, frame.buffer.dims.cols)

\* C25 as stated: at viewportY = 0, every line available and every modified
\* row marked dirty, after a render() without forceAll every row of the
\* surface shows the current content of its buffer line, painted with the
\* current theme and selection: no row is blank or stale.
C25_Original ==
  ( /\ frame.active /\ renderer.surface.followed
    /\ ~frame.forceAllArg
    /\ frame.vy2 = 0 /\ frame.renderer.lastViewportY = 0
    /\ frame.buffer.nullRows = {}
    /\ frame.buffer.marked \subseteq frame.buffer.dirty ) =>
    \A y \in FrameRows :
      /\ y \in DOMAIN Surface(renderer)
      /\ Surface(renderer)[y].pix = CurrentRowImage(y)

\* ======================================================= box drawing
\* drawBoxChar on its own: two adjacent cells holding any two codepoints of
\* U+2500-257F, after zero or one plain cell, painted at some row with one of
\* the cell sizes.  Lengths are kept in half pixels (names ending in 2), so
\* that width / 2, thickness / 2 and the double-line offset are whole numbers.
MaxCellWidth == 12
MaxCellHeight == 24

\* one odd and one even size on each axis
CellWidthSet == {MaxCellWidth - 3, MaxCellWidth}
CellHeightSet == {MaxCellHeight - 7, MaxCellHeight}

BoxCodepointSet == 9472 .. 9599

BoxLines(up, right, down, left) ==
  [up |-> up, right |-> right, down |-> down, left |-> left]

\* The codepoints in decimal, in ascending order.
BOX_DRAWING_MAP ==
     (9472 :> BoxLines("none", "light", "none", "light"))
  @@ (9473 :> BoxLines("none", "heavy", "none", "heavy"))
  @@ (9474 :> BoxLines("light", "none", "light", "none"))
  @@ (9475 :> BoxLines("heavy", "none", "heavy", "none"))
  @@ (9476 :> BoxLines("none", "light", "none", "light"))
  @@ (9477 :> BoxLines("none", "heavy", "none", "heavy"))
  @@ (9478 :> BoxLines("light", "none", "light", "none"))
  @@ (9479 :> BoxLines("heavy", "none", "heavy", "none"))
  @@ (9480 :> BoxLines("none", "light", "none", "light"))
  @@ (9481 :> BoxLines("none", "heavy", "none", "heavy"))
  @@ (9482 :> BoxLines("light", "none", "light", "none"))
  @@ (9483 :> BoxLines("heavy", "none", "heavy", "none"))
  @@ (9484 :> BoxLines("none", "light", "light", "none"))
  @@ (9485 :> BoxLines("none", "heavy", "light", "none"))
  @@ (9486 :> BoxLines("none", "light", "heavy", "none"))
  @@ (9487 :> BoxLines("none", "heavy", "heavy", "none"))
  @@ (9488 :> BoxLines("none", "none", "light", "light"))
  @@ (9489 :> BoxLines("none", "none", "light", "heavy"))
  @@ (9490 :> BoxLines("none", "none", "heavy", "light"))
  @@ (9491 :> BoxLines("none", "none", "heavy", "heavy"))
  @@ (9492 :> BoxLines("light", "light", "none", "none"))
  @@ (9493 :> BoxLines("light", "heavy", "none", "none"))
  @@ (9494 :> BoxLines("heavy", "light", "none", "none"))
  @@ (9495 :> BoxLines("heavy", "heavy", "none", "none"))
  @@ (9496 :> BoxLines("light", "none", "none", "light"))
  @@ (9497 :> BoxLines("light", "none", "none", "heavy"))
  @@ (9498 :> BoxLines("heavy", "none", "none", "light"))
  @@ (9499 :> BoxLines("heavy", "none", "none", "heavy"))
  @@ (9500 :> BoxLines("light", "light", "light", "none"))
  @@ (9501 :> BoxLines("light", "heavy", "light", "none"))
  @@ (9502 :> BoxLines("heavy", "light", "light", "none"))
  @@ (9503 :> BoxLines("light", "light", "heavy", "none"))
  @@ (9504 :> BoxLines("heavy", "light", "heavy", "none"))
  @@ (9505 :> BoxLines("heavy", "heavy", "light", "none"))
  @@ (9506 :> BoxLines("light", "heavy", "heavy", "none"))
  @@ (9507 :> BoxLines("heavy", "heavy", "heavy", "none"))
  @@ (9508 :> BoxLines("light", "none", "light", "light"))
  @@ (9509 :> BoxLines("light", "none", "light", "heavy"))
  @@ (9510 :> BoxLines("heavy", "none", "light", "light"))
  @@ (9511 :> BoxLines("light", "none", "heavy", "light"))
  @@ (9512 :> BoxLines("heavy", "none", "heavy", "light"))
  @@ (9513 :> BoxLines("heavy", "none", "light", "heavy"))
  @@ (9514 :> BoxLines("light", "none", "heavy", "heavy"))
  @@ (9515 :> BoxLines("heavy", "none", "heavy", "heavy"))
  @@ (9516 :> BoxLines("none", "light", "light", "light"))
  @@ (9517 :> BoxLines("none", "light", "light", "heavy"))
  @@ (9518 :> BoxLines("none", "heavy", "light", "light"))
  @@ (9519 :> BoxLines("none", "heavy", "light", "heavy"))
  @@ (9520 :> BoxLines("none", "light", "heavy", "light"))
  @@ (9521 :> BoxLines("none", "light", "heavy", "heavy"))
  @@ (9522 :> BoxLines("none", "heavy", "heavy", "light"))
  @@ (9523 :> BoxLines("none", "heavy", "heavy", "heavy"))
  @@ (9524 :> BoxLines("light", "light", "none", "light"))
  @@ (9525 :> BoxLines("light", "light", "none", "heavy"))
  @@ (9526 :> BoxLines("light", "heavy", "none", "light"))
  @@ (9527 :> BoxLines("light", "heavy", "none", "heavy"))
  @@ (9528 :> BoxLines("heavy", "light", "none", "light"))
  @@ (9529 :> BoxLines("heavy", "light", "none", "heavy"))
  @@ (9530 :> BoxLines("heavy", "heavy", "none", "light"))
  @@ (9531 :> BoxLines("heavy", "heavy", "none", "heavy"))
  @@ (9532 :> BoxLines("light", "light", "light", "light"))
  @@ (9533 :> BoxLines("light", "light", "light", "heavy"))
  @@ (9534 :> BoxLines("light", "heavy", "light", "light"))
  @@ (9535 :> BoxLines("light", "heavy", "light", "heavy"))
  @@ (9536 :> BoxLines("heavy", "light", "light", "light"))
  @@ (9537 :> BoxLines("light", "light", "heavy", "light"))
  @@ (9538 :> BoxLines("heavy", "light", "heavy", "light"))
  @@ (9539 :> BoxLines("heavy", "light", "light", "heavy"))
  @@ (9540 :> BoxLines("heavy", "heavy", "light", "light"))
  @@ (9541 :> BoxLines("light", "light", "heavy", "heavy"))
  @@ (9542 :> BoxLines("light", "heavy", "heavy", "light"))
  @@ (9543 :> BoxLines("heavy", "heavy", "light", "heavy"))
  @@ (9544 :> BoxLines("light", "heavy", "heavy", "heavy"))
  @@ (9545 :> BoxLines("heavy", "light", "heavy", "heavy"))
  @@ (9546 :> BoxLines("heavy", "heavy", "heavy", "light"))
  @@ (9547 :> BoxLines("heavy", "heavy", "heavy", "heavy"))
  @@ (9548 :> BoxLines("none", "light", "none", "light"))
  @@ (9549 :> BoxLines("none", "heavy", "none", "heavy"))
  @@ (9550 :> BoxLines("light", "none", "light", "none"))
  @@ (9551 :> BoxLines("heavy", "none", "heavy", "none"))
  @@ (9552 :> BoxLines("none", "double", "none", "double"))
  @@ (9553 :> BoxLines("double", "none", "double", "none"))
  @@ (9554 :> BoxLines("none", "double", "light", "none"))
  @@ (9555 :> BoxLines("none", "light", "double", "none"))
  @@ (9556 :> BoxLines("none", "double", "double", "none"))
  @@ (9557 :> BoxLines("none", "none", "light", "double"))
  @@ (9558 :> BoxLines("none", "none", "double", "light"))
  @@ (9559 :> BoxLines("none", "none", "double", "double"))
  @@ (9560 :> BoxLines("light", "double", "none", "none"))
  @@ (9561 :> BoxLines("double", "light", "none", "none"))
  @@ (9562 :> BoxLines("double", "double", "none", "none"))
  @@ (9563 :> BoxLines("light", "none", "none", "double"))
  @@ (9564 :> BoxLines("double", "none", "none", "light"))
  @@ (9565 :> BoxLines("double", "none", "none", "double"))
  @@ (9566 :> BoxLines("light", "double", "light", "none"))
  @@ (9567 :> BoxLines("double", "light", "double", "none"))
  @@ (9568 :> BoxLines("double", "double", "double", "none"))
  @@ (9569 :> BoxLines("light", "none", "light", "double"))
  @@ (9570 :> BoxLines("double", "none", "double", "light"))
  @@ (9571 :> BoxLines("double", "none", "double", "double"))
  @@ (9572 :> BoxLines("none", "double", "light", "double"))
  @@ (9573 :> BoxLines("none", "light", "double", "light"))
  @@ (9574 :> BoxLines("none", "double", "double", "double"))
  @@ (9575 :> BoxLines("light", "double", "none", "double"))
  @@ (9576 :> BoxLines("double", "light", "none", "light"))
  @@ (9577 :> BoxLines("double", "double", "none", "double"))
  @@ (9578 :> BoxLines("light", "double", "light", "double"))
  @@ (9579 :> BoxLines("double", "light", "double", "light"))
  @@ (9580 :> BoxLines("double", "double", "double", "double"))
  @@ (9581 :> BoxLines("none", "light", "light", "none"))
  @@ (9582 :> BoxLines("none", "none", "light", "light"))
  @@ (9583 :> BoxLines("light", "none", "none", "light"))
  @@ (9584 :> BoxLines("light", "light", "none", "none"))
  @@ (9588 :> BoxLines("none", "none", "none", "light"))
  @@ (9589 :> BoxLines("light", "none", "none", "none"))
  @@ (9590 :> BoxLines("none", "light", "none", "none"))
  @@ (9591 :> BoxLines("none", "none", "light", "none"))
  @@ (9592 :> BoxLines("none", "none", "none", "heavy"))
  @@ (9593 :> BoxLines("heavy", "none", "none", "none"))
  @@ (9594 :> BoxLines("none", "heavy", "none", "none"))
  @@ (9595 :> BoxLines("none", "none", "heavy", "none"))
  @@ (9596 :> BoxLines("none", "heavy", "none", "light"))
  @@ (9597 :> BoxLines("light", "none", "heavy", "none"))
  @@ (9598 :> BoxLines("none", "light", "none", "heavy"))
  @@ (9599 :> BoxLines("heavy", "none", "light", "none"))

GetBoxLines(codepoint) ==
  IF codepoint \in DOMAIN BOX_DRAWING_MAP THEN Some(BOX_DRAWING_MAP[codepoint]) ELSE Null

Max(a, b) == IF a >= b THEN a ELSE b

\* Math.round(n / d) for n >= 0, d > 0 (halves round up)
RoundDiv(n, d) == (2 * n + d) \div (2 * d)

\* Math.round, Math.ceil and Math.floor of a length given in half pixels; the
\* result is a whole number of pixels, again in half pixels.
Round2(v2) == 2 * ((v2 + 1) \div 2)

Ceil2Truncates(v2) == 2 * (v2 \div 2)

Ceil2(v2) == 2 * ((v2 + 1) \div 2)

Floor2(v2) == 2 * (v2 \div 2)

LightThickness(height) == Max(1, RoundDiv(height, 12))
HeavyThickness(height) == Max(2, RoundDiv(height, 6))
DoubleGap(height) == Max(2, RoundDiv(height, 8))
DoubleLineThickness(height) == Max(1, RoundDiv(height, 16))

GetThickness(style, height) ==
  IF style = "light" THEN LightThickness(height)
  ELSE IF style = "heavy" THEN HeavyThickness(height)
  ELSE IF style = "double" THEN DoubleLineThickness(height)
  ELSE 0

\* ctx.fillRect(x, y, w, h); stubs names the stubs of the glyph the rectangle
\* is drawn for.
Rect(stubs, x2, y2, w2, h2) ==
  [stubs |-> stubs, x2 |-> x2, y2 |-> y2, w2 |-> w2, h2 |-> h2]

\* The horizontal segments (left and right) of drawBoxChar.
HorizontalSegments(lines, cellX, cellY, width, height) ==
  LET centerX2 == 2 * cellX + width
      centerY2 == 2 * cellY + height
      dlt == DoubleLineThickness(height)
      offset2 == DoubleGap(height) + dlt
      leftThickness == GetThickness(lines.left, height)
      rightThickness == GetThickness(lines.right, height)
  IN IF lines.left = "none" /\ lines.right = "none" THEN << >>
     ELSE IF lines.left = "double" \/ lines.right = "double"
     THEN (IF lines.left # "none"
           THEN LET w2 == width + (IF lines.right # "none" THEN dlt ELSE 0)
                IN << Rect({"left"}, 2 * cellX, centerY2 - offset2 - dlt, w2, 2 * dlt),
                      Rect({"left"}, 2 * cellX, centerY2 + offset2 - dlt, w2, 2 * dlt) >>
           ELSE << >>)
          \o
          (IF lines.right # "none"
           THEN LET e2 == IF lines.left # "none" THEN dlt ELSE 0
                IN << Rect({"right"}, centerX2 - e2, centerY2 - offset2 - dlt,
                           width + e2, 2 * dlt),
                      Rect({"right"}, centerX2 - e2, centerY2 + offset2 - dlt,
                           width + e2, 2 * dlt) >>
           ELSE << >>)
     ELSE IF lines.left # "none" /\ lines.right # "none" /\ lines.left = lines.right
     THEN << Rect({"left", "right"}, 2 * cellX, Round2(centerY2 - leftThickness),
                  2 * width, 2 * leftThickness) >>
     ELSE (IF lines.left # "none"
           THEN LET extendPastCenter2 == IF lines.right # "none" THEN leftThickness ELSE 0
                IN << Rect({"left"}, 2 * cellX, Round2(centerY2 - leftThickness),
                           Ceil2(width + extendPastCenter2), 2 * leftThickness) >>
           ELSE << >>)
          \o
          (IF lines.right # "none"
           THEN LET extendPastCenter2 == IF lines.left # "none" THEN rightThickness ELSE 0
                IN << Rect({"right"}, Floor2(centerX2 - extendPastCenter2),
                           Round2(centerY2 - rightThickness),
                           Ceil2(width + extendPastCenter2), 2 * rightThickness) >>
           ELSE << >>)

\* The vertical segments (up and down) of drawBoxChar.
VerticalSegments(lines, cellX, cellY, width, height) ==
  LET centerX2 == 2 * cellX + width
      centerY2 == 2 * cellY + height
      dlt == DoubleLineThickness(height)
      offset2 == DoubleGap(height) + dlt
      upThickness == GetThickness(lines.up, height)
      downThickness == GetThickness(lines.down, height)
  IN IF lines.up = "none" /\ lines.down = "none" THEN << >>
     ELSE IF lines.up = "double" \/ lines.down = "double"
     THEN (IF lines.up # "none"
           THEN << Rect({"up"}, Round2(centerX2 - offset2 - dlt), 2 * cellY,
                        2 * dlt, Ceil2(height + dlt)),
                   Rect({"up"}, Round2(centerX2 + offset2 - dlt), 2 * cellY,
                        2 * dlt, Ceil2(height + dlt)) >>
           ELSE << >>)
          \o
          (IF lines.down # "none"
           THEN << Rect({"down"}, Round2(centerX2 - offset2 - dlt), Floor2(centerY2 - dlt),
                        2 * dlt, Ceil2(height + dlt)),
                   Rect({"down"}, Round2(centerX2 + offset2 - dlt), Floor2(centerY2 - dlt),
                        2 * dlt, Ceil2(height + dlt)) >>
           ELSE << >>)
     ELSE IF lines.up # "none" /\ lines.down # "none" /\ lines.up = lines.down
     THEN << Rect({"up", "down"}, Round2(centerX2 - upThickness), 2 * cellY,
                  2 * upThickness, 2 * height) >>
     ELSE (IF lines.up # "none"
           THEN LET extendPastCenter2 == IF lines.down # "none" THEN upThickness ELSE 0
                IN << Rect({"up"}, Round2(centerX2 - upThickness), 2 * cellY,
                           2 * upThickness, Ceil2(height + extendPastCenter2)) >>
           ELSE << >>)
          \o
          (IF lines.down # "none"
           THEN LET extendPastCenter2 == IF lines.up # "none" THEN downThickness ELSE 0
                IN << Rect({"down"}, Round2(centerX2 - downThickness),
                           Floor2(centerY2 - extendPastCenter2),
                           2 * downThickness, Ceil2(height + extendPastCenter2)) >>
           ELSE << >>)

\* drawBoxChar(codepoint, cellX, cellY, fgColor): the rectangles it fills, in
\* order; none when the codepoint has no entry in the map.
DrawBoxChar(codepoint, cellX, cellY, width, height) ==
  IF ~IsSome(GetBoxLines(codepoint)) THEN << >>
  ELSE HorizontalSegments(Val(GetBoxLines(codepoint)), cellX, cellY, width, height)
       \o VerticalSegments(Val(GetBoxLines(codepoint)), cellX, cellY, width, height)

\* What renderCellText draws for the glyph of a visible cell at column x of
\* row y: the routine its if-chain picks and, for drawBoxChar, the
\* rectangles filled.
CellGlyph(rd, cell, x, y) ==
  LET codepoint == IF cell.codepoint = 0 THEN 32 ELSE cell.codepoint
      routine == GlyphRoutine(codepoint)
  IN [ via |-> routine,
       rects |-> IF routine = "drawBoxChar"
                 THEN DrawBoxChar(codepoint, x * rd.metrics.width, y * rd.metrics.height,
                                  rd.metrics.width, rd.metrics.height)
                 ELSE << >> ]

BoxCell(codepoint) == [PlainCell EXCEPT !.codepoint = codepoint]

BoxInit ==
  /\ buffer = [ dims |-> [cols |-> Cols, rows |-> Rows],
                dirty |-> RowSet(Rows), marked |-> RowSet(Rows),
                fullRedraw |-> FALSE, nullRows |-> {},
                cursor |-> [x |-> 0, y |-> 0, visible |-> TRUE] ]
  /\ scrollback = [present |-> FALSE, length |-> 0]
  /\ selmgr = [coords |-> Null, dirtyRows |-> {}]
  /\ \E width \in CellWidthSet, height \in CellHeightSet :
       renderer = [NewRenderer(TRUE, FALSE, 2) EXCEPT
                     !.metrics = [width |-> width, height |-> height]]
  /\ host = [viewportY |-> 0, scrollbarOpacity |-> 1]
  /\ frame = IdleFrame
  /\ changes = 0
  /\ \E lead \in {0, 1}, a \in BoxCodepointSet, b \in BoxCodepointSet :
       paint = [NoPaint EXCEPT !.line = PlainLine(lead) \o << BoxCell(a), BoxCell(b) >>]
  /\ wasm = NoWasm

\* The text pass of renderLine over the cells, at the first or the last row.
PaintBoxLine ==
  \E y \in {0, buffer.dims.rows - 1} :
    /\ ~paint.painted
    /\ paint' = [paint EXCEPT !.painted = TRUE, !.y = y,
                              !.draws = [i \in DOMAIN paint.line |->
                                           CellGlyph(renderer, paint.line[i], i - 1, y)]]
    /\ UNCHANGED << wasm, buffer, scrollback, selmgr, renderer, host, frame, changes >>

BoxNext == PaintBoxLine

BoxSpec == BoxInit /\ [][BoxNext]_vars

\* ---------------------------------------------------------------- C21
\* C21 as stated: for every codepoint of a painted visible cell the painter
\* either invokes a procedural routine that has a drawing rule for it (every
\* codepoint of U+2500-257F has a four-stub decomposition) or falls through
\* to fillText: no glyph is dropped.
C21_Original ==
  paint.painted =>
    \A i \in DOMAIN paint.draws :
      \/ paint.draws[i].via = "fillText"
      \/ paint.draws[i].rects # << >>

\* ---------------------------------------------------------------- C22
\* The four-stub entry of cell i of the line, if it has one.
LinesOf(i) == GetBoxLines(paint.line[i].codepoint)

\* The rectangles drawn for one stub of cell i.
StubRects(i, stub) ==
  { paint.draws[i].rects[k] :
      k \in { n \in DOMAIN paint.draws[i].rects : stub \in paint.draws[i].rects[n].stubs } }

Extent(rects) == { << r.y2, r.h2 >> : r \in rects }

\* A at cell i has a right stub and B at cell i + 1 a left stub of the same style.
Joined(i) ==
  /\ i \in DOMAIN paint.line /\ i + 1 \in DOMAIN paint.line
  /\ IsSome(LinesOf(i)) /\ IsSome(LinesOf(i + 1))
  /\ Val(LinesOf(i)).right # "none"
  /\ Val(LinesOf(i)).right = Val(LinesOf(i + 1)).left

\* C22: for the cell sizes and every pair of box codepoints A, B where A has
\* a right stub and B a left stub of the same style, A at column c and B at
\* column c + 1: A's right-stub rectangles end exactly at x = (c + 1) * width,
\* B's left-stub rectangles start there, and both have the same y-extent; a
\* cell holding U+2500 is filled from its left edge to its right edge.
C22_SeamFreeJoin ==
  paint.painted =>
    \A i \in DOMAIN paint.line :
      /\ Joined(i) =>
           /\ StubRects(i, "right") # {} /\ StubRects(i + 1, "left") # {}
           /\ \A r \in StubRects(i, "right") :
                r.x2 + r.w2 = 2 * i * renderer.metrics.width
           /\ \A r \in StubRects(i + 1, "left") :
                r.x2 = 2 * i * renderer.metrics.width
           /\ Extent(StubRects(i, "right")) = Extent(StubRects(i + 1, "left"))
      /\ paint.line[i].codepoint = 9472 =>
           \A r \in StubRects(i, "right") :
             /\ r.x2 = 2 * (i - 1) * renderer.metrics.width
             /\ r.w2 = 2 * renderer.metrics.width

\* A heavy right stub beside a light left stub (U+257C), at an odd cell width
\* and after a plain cell, meets the heavy left stub of U+2513.
C22_Witness ==
  /\ paint.painted
  /\ Len(paint.line) = 3
  /\ paint.line[2].codepoint = 9596 /\ paint.line[3].codepoint = 9491
  /\ renderer.metrics.width % 2 = 1
  /\ Joined(2)

\* ---------------------------------------------------------------- C23
\* C23 as stated: when one stub of an axis is absent, the rectangles of the
\* opposite stub do not extend past the cell centre (light, heavy and double
\* lines, both axes).
C23_Original ==
  paint.painted =>
    \A i \in DOMAIN paint.line :
      IsSome(LinesOf(i)) =>
        LET lines == Val(LinesOf(i))
            centerX2 == (2 * i - 1) * renderer.metrics.width
            centerY2 == (2 * paint.y + 1) * renderer.metrics.height
        IN /\ lines.right = "none" =>
                \A r \in StubRects(i, "left") : r.x2 + r.w2 <= centerX2
           /\ lines.left = "none" =>
                \A r \in StubRects(i, "right") : r.x2 >= centerX2
           /\ lines.down = "none" =>
                \A r \in StubRects(i, "up") : r.y2 + r.h2 <= centerY2
           /\ lines.up = "none" =>
                \A r \in StubRects(i, "down") : r.y2 >= centerY2

\* ---------------------------------------------------------------- C27
\* C27: ctx.globalAlpha is 1.0 whenever renderCellText returns, for every
\* cell of the line and every exit path (INVISIBLE, a procedural routine,
\* shades and codepoints without a drawing rule included, host text).
C27_GlobalAlphaRestored ==
  paint.painted => \A k \in DOMAIN paint.alphas : paint.alphas[k] = 4

\* A FAINT medium shade was painted: FAINT set the alpha to 0.5 and
\* drawBlockChar to the shade's density before it was set back.
C27_Witness ==
  /\ paint.painted
  /\ \E i \in DOMAIN paint.line :
       /\ paint.line[i].width # 0
       /\ HasFlag(paint.line[i], "FAINT")
       /\ paint.line[i].codepoint = 9618
  /\ Len(paint.alphas) = Len(paint.line)
  /\ \A k \in DOMAIN paint.alphas : paint.alphas[k] = 4

\* ======================================================= KeyEncoder
\* KeyEncoder (src/lib/buffer.test.ts) and the WASM allocator it calls.  live
\* holds the allocations not yet released, each with the kind of the call that
\* made it; allocs and frees list what the last encode() allocated and
\* released, outcome how it ended.
MaxEncodes == 4
\* Longest event.utf8, in bytes ('' is no text).
MaxUtf8 == 2
\* GHOSTTY_SUCCESS and two error codes
ResultSet == {0, 1, 2}

\* ghostty_wasm_alloc_* / ghostty_key_event_new: a new allocation
Alloc(w, kind) ==
  [w EXCEPT !.live = @ \cup {[kind |-> kind, ptr |-> w.next]},
            !.next = @ + 1,
            !.allocs = Append(@, [kind |-> kind, ptr |-> w.next])]

\* ghostty_wasm_free_* / ghostty_key_event_free
Free(w, kind, ptr) ==
  [w EXCEPT !.live = @ \ {[kind |-> kind, ptr |-> ptr]},
            !.frees = Append(@, [kind |-> kind, ptr |-> ptr])]

\* new KeyEncoder(exports) that succeeded: the encoder is allocated and the
\* pointer slot released.
NewKeyEncoder ==
  [NoWasm EXCEPT !.live = {[kind |-> "encoder", ptr |-> 2]}, !.next = 3, !.encoder = 2]

\* encode(event) with event.utf8 of utf8Length bytes, ghostty_key_event_new
\* returning createResult and ghostty_key_encoder_encode encodeResult.
EncodeCall(w, utf8Length, createResult, encodeResult) ==
  LET w0 == [w EXCEPT !.calls = @ + 1, !.allocs = << >>, !.frees = << >>]
      eventPtrPtr == w0.next
      w1 == Alloc(w0, "opaque")
      eventPtr == w1.next
      w2 == Free(Alloc(w1, "event"), "opaque", eventPtrPtr)
      utf8Ptr == w2.next
      w3 == IF utf8Length > 0 THEN Free(Alloc(w2, "u8_array"), "u8_array", utf8Ptr) ELSE w2
      bufPtr == w3.next
      w4 == Alloc(w3, "u8_array")
      writtenPtr == w4.next
      w5 == Alloc(w4, "usize")
      w6 == Free(Free(Free(w5, "u8_array", bufPtr), "usize", writtenPtr), "event", eventPtr)
  IN IF createResult # 0
     THEN [w1 EXCEPT !.outcome = "Failed to create key event"]
     ELSE IF encodeResult # 0
     THEN [w6 EXCEPT !.outcome = "Failed to encode key"]
     ELSE [w6 EXCEPT !.outcome = "return"]

EncodeInit ==
  /\ buffer = [ dims |-> [cols |-> Cols, rows |-> Rows],
                dirty |-> RowSet(Rows), marked |-> RowSet(Rows),
                fullRedraw |-> FALSE, nullRows |-> {},
                cursor |-> [x |-> 0, y |-> 0, visible |-> TRUE] ]
  /\ scrollback = [present |-> FALSE, length |-> 0]
  /\ selmgr = [coords |-> Null, dirtyRows |-> {}]
  /\ renderer = NewRenderer(TRUE, FALSE, 2)
  /\ host = [viewportY |-> 0, scrollbarOpacity |-> 1]
  /\ frame = IdleFrame
  /\ changes = 0
  /\ paint = NoPaint
  /\ wasm = NewKeyEncoder

Encode ==
  \E utf8Length \in 0 .. MaxUtf8, createResult \in ResultSet, encodeResult \in ResultSet :
    /\ wasm.calls < MaxEncodes
    /\ wasm' = EncodeCall(wasm, utf8Length, createResult, encodeResult)
    /\ UNCHANGED << buffer, scrollback, selmgr, renderer, host, frame, changes, paint >>

\* KeyEncoder.dispose()
DisposeKeyEncoder ==
  /\ wasm' = IF wasm.encoder # 0
             THEN [wasm EXCEPT !.live = @ \ {[kind |-> "encoder", ptr |-> wasm.encoder]},
                               !.encoder = 0]
             ELSE wasm
  /\ UNCHANGED << buffer, scrollback, selmgr, renderer, host, frame, changes, paint >>

EncodeNext ==
  \/ Encode
  \/ DisposeKeyEncoder

EncodeSpec == EncodeInit /\ [][EncodeNext]_vars

\* ---------------------------------------------------------------- C30
\* C30 as stated: encode() releases every allocation it makes (the pointer
\* slot, the key event, the utf8 array, the output buffer, the written-size
\* slot) exactly once on every exit path, the normal return and each thrown
\* error.
C30_Original ==
  wasm.calls > 0 =>
    \A n \in DOMAIN wasm.allocs :
      Cardinality({ k \in DOMAIN wasm.frees : wasm.frees[k] = wasm.allocs[n] }) = 1

====
